---- MODULE Spec2Model ----
(***************************************************************************)
(* Spec Recon: component pool, linker and schema extractor.                *)
(*                                                                         *)
(* Go strings are modelled as sequences of one-character strings, so that  *)
(* the string functions of the code (prefix, suffix, index, trim, split    *)
(* and the regular expressions of the call-site scanner) are computed on   *)
(* characters as the code computes them.  Pointers to model.Node are       *)
(* indices into the heap `nodes`; 0 is the nil pointer.                    *)
(***************************************************************************)
EXTENDS Integers, Sequences, FiniteSets, TLC

(***************************************************************************)
(* Go string primitives (package strings)                                  *)
(***************************************************************************)
UpperChars == <<"A","B","C","D","E","F","G","H","I","J","K","L","M","N","O","P","Q","R","S","T","U","V","W","X","Y","Z">>
LowerChars == <<"a","b","c","d","e","f","g","h","i","j","k","l","m","n","o","p","q","r","s","t","u","v","w","x","y","z">>
UpperSet == {UpperChars[i] : i \in 1..26}
LowerSet == {LowerChars[i] : i \in 1..26}
DigitSet == {"0","1","2","3","4","5","6","7","8","9"}
SpaceSet == {" ", "\t", "\n", "\r"}
\* \w of Go regexp
WordSet == UpperSet \cup LowerSet \cup DigitSet \cup {"_"}

ToLowerChar(c) == IF c \in UpperSet THEN LowerChars[CHOOSE i \in 1..26 : UpperChars[i] = c] ELSE c
ToLower(s) == [i \in 1..Len(s) |-> ToLowerChar(s[i])]

HasPrefix(s, p) == Len(p) <= Len(s) /\ SubSeq(s, 1, Len(p)) = p
HasSuffix(s, p) == Len(p) <= Len(s) /\ SubSeq(s, Len(s) - Len(p) + 1, Len(s)) = p
Contains(s, p) == \E i \in 0..(Len(s) - Len(p)) : SubSeq(s, i + 1, i + Len(p)) = p

\* Go s[a:b] with 0-based half-open bounds
Slice(s, a, b) == SubSeq(s, a + 1, b)

\* strings.Index / strings.LastIndex for a one-character separator: 0-based, -1 when absent
Index(s, c) ==
    IF \E i \in 1..Len(s) : s[i] = c
    THEN (CHOOSE i \in 1..Len(s) : s[i] = c /\ \A j \in 1..(i - 1) : s[j] # c) - 1
    ELSE -1
LastIndex(s, c) ==
    IF \E i \in 1..Len(s) : s[i] = c
    THEN (CHOOSE i \in 1..Len(s) : s[i] = c /\ \A j \in (i + 1)..Len(s) : s[j] # c) - 1
    ELSE -1

TrimSpace(s) ==
    IF \A i \in 1..Len(s) : s[i] \in SpaceSet
    THEN <<>>
    ELSE LET a == CHOOSE i \in 1..Len(s) : s[i] \notin SpaceSet /\ \A j \in 1..(i - 1) : s[j] \in SpaceSet
             b == CHOOSE i \in 1..Len(s) : s[i] \notin SpaceSet /\ \A j \in (i + 1)..Len(s) : s[j] \in SpaceSet
         IN SubSeq(s, a, b)

\* strings.Split(s, sep) for a one-character separator
RECURSIVE Split(_, _)
Split(s, c) ==
    LET i == Index(s, c)
    IN IF i = -1 THEN <<s>> ELSE <<Slice(s, 0, i)>> \o Split(Slice(s, i + 1, Len(s)), c)

Dot == <<".">>
Join(a, b) == a \o Dot \o b

(***************************************************************************)
(* Noise filters of the linker                                             *)
(***************************************************************************)
IgnoredTokens ==
    {
    <<"i","f">>, <<"e","l","s","e">>, <<"f","o","r">>, <<"w","h","i","l","e">>,
    <<"s","w","i","t","c","h">>, <<"c","a","s","e">>, <<"t","r","y">>, <<"c","a","t","c","h">>,
    <<"f","i","n","a","l","l","y">>, <<"s","y","n","c","h","r","o","n","i","z","e","d">>,
    <<"r","e","t","u","r","n">>, <<"t","h","r","o","w">>, <<"t","h","r","o","w","s">>,
    <<"a","s","s","e","r","t">>, <<"b","r","e","a","k">>, <<"c","o","n","t","i","n","u","e">>,
    <<"d","o">>, <<"n","e","w">>, <<"t","h","i","s">>, <<"s","u","p","e","r">>,
    <<"p","r","i","n","t","l","n">>, <<"p","r","i","n","t">>, <<"p","r","i","n","t","f">>,
    <<"i","n","f","o">>, <<"d","e","b","u","g">>, <<"w","a","r","n">>, <<"e","r","r","o","r">>,
    <<"t","r","a","c","e">>, <<"l","o","g">>, <<"o","u","t">>, <<"e","r","r">>,
    <<"S","y","s","t","e","m">>, <<"S","t","r","i","n","g">>, <<"I","n","t","e","g","e","r">>,
    <<"L","o","n","g">>, <<"D","o","u","b","l","e">>, <<"B","o","o","l","e","a","n">>,
    <<"O","b","j","e","c","t">>, <<"C","l","a","s","s">>, <<"E","x","c","e","p","t","i","o","n">>,
    <<"M","o","d","e","l","A","n","d","V","i","e","w">>, <<"M","o","d","e","l">>,
    <<"V","i","e","w">>, <<"R","e","d","i","r","e","c","t","V","i","e","w">> }

constructorPatterns ==
    {
    <<"R","e","s","p","o","n","s","e","E","n","t","i","t","y">>,
    <<"H","t","t","p","E","n","t","i","t","y">>, <<"A","r","r","a","y","L","i","s","t">>,
    <<"H","a","s","h","M","a","p">>, <<"H","a","s","h","S","e","t">>,
    <<"L","i","n","k","e","d","L","i","s","t">>, <<"T","r","e","e","M","a","p">>,
    <<"T","r","e","e","S","e","t">>, <<"D","a","t","e">>,
    <<"S","i","m","p","l","e","D","a","t","e","F","o","r","m","a","t">>,
    <<"S","t","r","i","n","g","B","u","i","l","d","e","r">>,
    <<"S","t","r","i","n","g","B","u","f","f","e","r">> }

isConstructorCall(varName) == varName \in IgnoredTokens \/ varName \in constructorPatterns

isValidJavaIdentifier(name) ==
    /\ name # <<>>
    /\ name[1] \in UpperSet \cup LowerSet \cup {"_", "$"}
    /\ \A i \in 2..Len(name) : name[i] \in UpperSet \cup LowerSet \cup DigitSet \cup {"_", "$"}

strictBlocklist ==
    {
    <<"i","f">>, <<"e","l","s","e">>, <<"f","o","r">>, <<"w","h","i","l","e">>, <<"d","o">>,
    <<"s","w","i","t","c","h">>, <<"c","a","s","e">>, <<"d","e","f","a","u","l","t">>,
    <<"r","e","t","u","r","n">>, <<"t","h","r","o","w">>, <<"t","h","r","o","w","s">>,
    <<"n","e","w">>, <<"t","r","y">>, <<"c","a","t","c","h">>, <<"f","i","n","a","l","l","y">>,
    <<"s","y","n","c","h","r","o","n","i","z","e","d">>, <<"a","s","s","e","r","t">>,
    <<"b","r","e","a","k">>, <<"c","o","n","t","i","n","u","e">>, <<"g","o","t","o">>,
    <<"i","n","s","t","a","n","c","e","o","f">>, <<"t","h","i","s">>, <<"s","u","p","e","r">>,
    <<"n","u","l","l">>, <<"t","r","u","e">>, <<"f","a","l","s","e">> }

keywordPrefixes ==
    {
    <<"i","f">>, <<"f","o","r">>, <<"w","h","i","l","e">>, <<"s","w","i","t","c","h">>,
    <<"c","a","t","c","h">>, <<"s","y","n","c","h","r","o","n","i","z","e","d">>,
    <<"r","e","t","u","r","n">>, <<"t","h","r","o","w">>, <<"a","s","s","e","r","t">>,
    <<"n","e","w">>, <<"i","n","s","t","a","n","c","e","o","f">> }

isLetter(r) == r \in LowerSet \cup UpperSet

s_Exception == <<"E","x","c","e","p","t","i","o","n">>
s_Error == <<"E","r","r","o","r">>

IsInvalidToken(name) ==
    LET lower == ToLower(name)
    IN \/ name = <<>>
       \/ lower \in strictBlocklist
       \/ \E prefix \in keywordPrefixes :
             /\ HasPrefix(lower, prefix)
             /\ (lower = prefix \/ (Len(lower) > Len(prefix) /\ ~isLetter(lower[Len(prefix) + 1])))
       \/ HasSuffix(name, s_Exception)
       \/ HasSuffix(name, s_Error)

javaKeywords ==
    {
    <<"i","f">>, <<"e","l","s","e">>, <<"f","o","r">>, <<"w","h","i","l","e">>,
    <<"s","w","i","t","c","h">>, <<"c","a","s","e">>, <<"d","e","f","a","u","l","t">>,
    <<"t","r","y">>, <<"c","a","t","c","h">>, <<"f","i","n","a","l","l","y">>,
    <<"s","y","n","c","h","r","o","n","i","z","e","d">>, <<"r","e","t","u","r","n">>,
    <<"t","h","r","o","w">>, <<"t","h","r","o","w","s">>, <<"n","e","w">>, <<"s","u","p","e","r">>,
    <<"t","h","i","s">>, <<"b","r","e","a","k">>, <<"c","o","n","t","i","n","u","e">>, <<"d","o">>,
    <<"i","n","s","t","a","n","c","e","o","f">>, <<"a","s","s","e","r","t">> }

IsValidMethodCall(name) ==
    /\ name # <<>>
    /\ name \notin javaKeywords
    /\ ~HasSuffix(name, s_Exception)
    /\ ~HasSuffix(name, s_Error)

dataPackages ==
    {
    <<".","m","o","d","e","l">>, <<".","v","o">>, <<".","d","t","o">>,
    <<".","d","o","m","a","i","n">>, <<".","e","n","t","i","t","y">>, <<".","b","e","a","n">> }

IsDataClass(packageName) ==
    /\ packageName # <<>>
    /\ \E pattern \in dataPackages : Contains(ToLower(packageName), pattern)

modelSuffixes ==
    {
    <<"d","t","o">>, <<"v","o">>, <<"e","n","t","i","t","y">>, <<"r","e","q","u","e","s","t">>,
    <<"r","e","s","p","o","n","s","e">>, <<"p","r","o","j","e","c","t","i","o","n">>,
    <<"e","x","c","e","p","t","i","o","n">> }

IsModelClass(id) ==
    LET parts == Split(id, ".")
        n == Len(parts)
        candidates == IF n >= 2 THEN {parts[n - 1], parts[n]} ELSE {parts[1]}
    IN \E name \in candidates : \E suffix \in modelSuffixes : HasSuffix(ToLower(name), suffix)

(***************************************************************************)
(* Call-site scanner: FindMethodCalls                                      *)
(***************************************************************************)
\* Last position of the maximal run of characters of `set` starting at i (i-1 when there is none)
RECURSIVE RunEnd(_, _, _)
RunEnd(s, i, set) ==
    IF i <= Len(s) /\ s[i] \in set THEN RunEnd(s, i + 1, set) ELSE i - 1

\* One match of (\w+)\.(\w+)\s*\( or, when static, of ([A-Z]\w+)\.(\w+)\s*\( starting exactly
\* at position i; the result is <<>> when the pattern does not match there.
MatchCallAt(s, i, static) ==
    LET j == IF static
             THEN (IF i <= Len(s) /\ s[i] \in UpperSet /\ RunEnd(s, i + 1, WordSet) >= i + 1
                   THEN RunEnd(s, i + 1, WordSet) ELSE i - 1)
             ELSE RunEnd(s, i, WordSet)
        k == RunEnd(s, j + 2, WordSet)
        m == RunEnd(s, k + 1, SpaceSet)
    IN IF /\ j >= i
          /\ j + 1 <= Len(s) /\ s[j + 1] = "."
          /\ k >= j + 2
          /\ m + 1 <= Len(s) /\ s[m + 1] = "("
       THEN <<[Variable |-> SubSeq(s, i, j), MethodName |-> SubSeq(s, j + 2, k),
               IsStatic |-> static, end |-> m + 1]>>
       ELSE <<>>

\* regexp.FindAllStringSubmatch: leftmost matches, each search resuming after the previous match
RECURSIVE FindAllCalls(_, _, _)
FindAllCalls(s, pos, static) ==
    LET starts == {i \in pos..Len(s) : MatchCallAt(s, i, static) # <<>>}
    IN IF starts = {} THEN <<>>
       ELSE LET first == CHOOSE i \in starts : \A j \in starts : i <= j
                mt == MatchCallAt(s, first, static)[1]
            IN <<[Variable |-> mt.Variable, MethodName |-> mt.MethodName, IsStatic |-> static]>>
               \o FindAllCalls(s, mt.end + 1, static)

FindMethodCalls(source) == FindAllCalls(source, 1, FALSE) \o FindAllCalls(source, 1, TRUE)

(***************************************************************************)
(* Inputs: parser output handed to the pool                                *)
(* (javaparser.JavaClass and xmlparser.MapperXML values)                   *)
(***************************************************************************)
s_Controller == <<"C","o","n","t","r","o","l","l","e","r">>
s_RestController == <<"R","e","s","t","C","o","n","t","r","o","l","l","e","r">>
s_Service == <<"S","e","r","v","i","c","e">>
s_Repository == <<"R","e","p","o","s","i","t","o","r","y">>
s_Mapper == <<"M","a","p","p","e","r">>
s_c == <<"c">>
s_UserController == <<"U","s","e","r","C","o","n","t","r","o","l","l","e","r">>
s_UserService == <<"U","s","e","r","S","e","r","v","i","c","e">>
s_UserMapper == <<"U","s","e","r","M","a","p","p","e","r">>
s_userService == <<"u","s","e","r","S","e","r","v","i","c","e">>
s_userMapper == <<"u","s","e","r","M","a","p","p","e","r">>
s_login == <<"l","o","g","i","n">>
s_processUser == <<"p","r","o","c","e","s","s","U","s","e","r">>
s_getResponse == <<"g","e","t","R","e","s","p","o","n","s","e">>
s_find == <<"f","i","n","d">>
s_handleError == <<"h","a","n","d","l","e","E","r","r","o","r">>
s_ModelAndView == <<"M","o","d","e","l","A","n","d","V","i","e","w">>
s_String == <<"S","t","r","i","n","g">>
s_void == <<"v","o","i","d">>
s_User == <<"U","s","e","r">>

\* if (u != null) { ModelAndView m = new ModelAndView("h"); String r = userService.processUser(u);
\* System.out.println("x"); return r; }
body_login ==
    <<"i","f"," ","(","u"," ","!","="," ","n","u","l","l",")"," ","{"," ","M","o","d","e","l","A","n","d","V","i","e","w"," ","m"," ","="," ","n","e","w"," ","M","o","d","e","l","A","n","d","V","i","e","w","(","\"","h","\"",")",";"," ","S","t","r","i","n","g"," ","r"," ","="," ","u","s","e","r","S","e","r","v","i","c","e",".","p","r","o","c","e","s","s","U","s","e","r","(","u",")",";"," ","S","y","s","t","e","m",".","o","u","t",".","p","r","i","n","t","l","n","(","\"","x","\"",")",";"," ","r","e","t","u","r","n"," ","r",";"," ","}">>

\* userMapper.find(u); userMapper.find(u); return userMapper.handle(u);
body_processUser ==
    <<"u","s","e","r","M","a","p","p","e","r",".","f","i","n","d","(","u",")",";"," ","u","s","e","r","M","a","p","p","e","r",".","f","i","n","d","(","u",")",";"," ","r","e","t","u","r","n"," ","u","s","e","r","M","a","p","p","e","r",".","h","a","n","d","l","e","(","u",")",";">>

\* return userMapper.find(u);
body_getResponse ==
    <<"r","e","t","u","r","n"," ","u","s","e","r","M","a","p","p","e","r",".","f","i","n","d","(","u",")",";">>

J_UserController ==
    [Package |-> s_c, Name |-> s_UserController, Annotations |-> <<s_Controller>>,
     Fields |-> <<[Name |-> s_userService, Type |-> s_UserService]>>,
     Methods |-> <<[Name |-> s_login, ReturnType |-> s_ModelAndView, Body |-> body_login]>>]

J_UserService ==
    [Package |-> s_c, Name |-> s_UserService, Annotations |-> <<s_Service>>,
     Fields |-> <<[Name |-> s_userMapper, Type |-> s_UserMapper]>>,
     Methods |-> <<[Name |-> s_processUser, ReturnType |-> s_String, Body |-> body_processUser],
                   [Name |-> s_getResponse, ReturnType |-> s_User, Body |-> body_getResponse]>>]

\* an interface with two overloads of find; interface methods have no body
J_UserMapper ==
    [Package |-> s_c, Name |-> s_UserMapper, Annotations |-> <<>>,
     Fields |-> <<>>,
     Methods |-> <<[Name |-> s_find, ReturnType |-> s_User, Body |-> <<>>],
                   [Name |-> s_find, ReturnType |-> s_User, Body |-> <<>>],
                   [Name |-> s_handleError, ReturnType |-> s_void, Body |-> <<>>]>>]

\* a class whose simple name is the capitalised tail of the field name userService
J_Service ==
    [Package |-> s_c, Name |-> s_Service, Annotations |-> <<>>,
     Fields |-> <<>>,
     Methods |-> <<[Name |-> s_processUser, ReturnType |-> s_void, Body |-> <<>>]>>]

JavaClasses == {J_UserController, J_UserService, J_UserMapper, J_Service}

\* <mapper namespace="c.UserMapper"> <select id="find"/> <update id="handleError"/> <delete/>
X_UserMapper ==
    [Namespace |-> Join(s_c, s_UserMapper),
     SQLs |-> <<[ID |-> s_find], [ID |-> s_handleError], [ID |-> <<>>]>>]

MapperXMLs == {X_UserMapper}

\* number of files the run registers
MaxFiles == 3
\* number of times Link is run on one pool
MaxLinks == 2


(***************************************************************************)
(* State                                                                   *)
(***************************************************************************)
VARIABLES
    nodes,          \* heap of model.Node values; a *Node is an index, 0 is nil
    ClassMap,       \* ComponentPool.ClassMap: full class name -> *Node
    MethodMap,      \* ComponentPool.MethodMap: full class name + "." + method name -> *Node
    MethodBodyMap,  \* ComponentPool.MethodBodyMap: same key -> body text
    SQLMap,         \* ComponentPool.SQLMap: namespace + "." + id -> *Node
    FieldTypeMap,   \* ComponentPool.FieldTypeMap: full class name -> (field name -> type string)
    pc,             \* position of the run: "load", "linkJava", "linkXML", "linked"
    loaded,         \* inputs registered so far
    todo,           \* keys the current range loop over MethodMap has not visited yet
    linkCount,      \* completed runs of Link
    lastCall,       \* the arguments <<n, child>> of the last direct call of Node.AddChild
    stack,          \* call stack of resolveSchemaRecursive, innermost frame last
    visited,        \* the visited map shared by the frames of one resolveSchema call
    ret,            \* value returned by the frame that has just returned
    typeArg,        \* the type name resolveSchema is called with
    fields1,        \* result of the first resolveSchema(typeArg) call
    fields2,        \* result of the second resolveSchema(typeArg) call
    spc,            \* position of the caller of resolveSchema: "idle", "first", "between",
                    \* "second", "done"
    arg,            \* the argument of the last call of an operation of the Extractor, the
                    \* parser, the sorter or the run
    out,            \* what that call returned
    op              \* the operation called last, "none" before the first call

poolVars == <<nodes, ClassMap, MethodMap, MethodBodyMap, SQLMap, FieldTypeMap>>
runVars == <<pc, loaded, todo, linkCount>>
schemaVars == <<stack, visited, ret, typeArg, fields1, fields2, spc>>
callVars == <<arg, out, op>>
vars ==
    <<nodes, ClassMap, MethodMap, MethodBodyMap, SQLMap, FieldTypeMap, pc, loaded, todo,
      linkCount, lastCall, stack, visited, ret, typeArg, fields1, fields2, spc,
      arg, out, op>>

Nil == 0
EmptyMap == <<>>
Put(m, k, v) == (k :> v) @@ m
Range(f) == {f[k] : k \in DOMAIN f}
SeqRange(s) == {s[i] : i \in 1..Len(s)}
\* every order in which a range loop over a Go map can visit the entries of S
Perms(S) ==
    {p \in [1..Cardinality(S) -> S] : \A i, j \in 1..Cardinality(S) : i # j => p[i] # p[j]}

(***************************************************************************)
(* model.Node                                                              *)
(***************************************************************************)
\* The gatekeeper of AddChild: the child is nil or its name is empty or whitespace-only
rejectsChild(ns, child) == child = Nil \/ Len(TrimSpace(ns[child].Method)) = 0

\* AddChild without GATEKEEPER 1: only the nil child is rejected
AddChildUnguarded(ns, n, child) ==
    IF child = Nil THEN ns
    ELSE [ns EXCEPT ![n].Children = Append(@, child), ![child].Parent = n]

AddChild(ns, n, child) ==
    IF rejectsChild(ns, child) THEN ns
    ELSE [ns EXCEPT ![n].Children = Append(@, child), ![child].Parent = n]

(***************************************************************************)
(* ComponentPool                                                           *)
(***************************************************************************)
extractSimpleTypeName(fullType) ==
    LET parts == Split(fullType, ".") IN TrimSpace(parts[Len(parts)])

extractPackage(fullClassName) ==
    LET lastDot == LastIndex(fullClassName, ".")
    IN IF lastDot = -1 THEN <<>> ELSE Slice(fullClassName, 0, lastDot)

determineNodeType(javaClass) ==
    LET anns == javaClass.Annotations
        known == {s_Controller, s_RestController, s_Service, s_Repository, s_Mapper}
    IN IF \E i \in 1..Len(anns) : anns[i] \in known
       THEN LET i == CHOOSE i \in 1..Len(anns) :
                        anns[i] \in known /\ \A j \in 1..(i - 1) : anns[j] \notin known
            IN IF anns[i] \in {s_Controller, s_RestController} THEN "CONTROLLER"
               ELSE IF anns[i] = s_Service THEN "SERVICE"
               ELSE "MAPPER"
       ELSE IF HasSuffix(javaClass.Name, s_Controller) THEN "CONTROLLER"
       ELSE IF HasSuffix(javaClass.Name, s_Service) THEN "SERVICE"
       ELSE IF HasSuffix(javaClass.Name, s_Mapper) \/ HasSuffix(javaClass.Name, s_Repository)
            THEN "MAPPER"
       ELSE "UTIL"

\* the fieldTypes map AddJavaClass builds: a later field of the same name overwrites
buildFieldTypes(fields) ==
    [name \in {fields[i].Name : i \in 1..Len(fields)} |->
        LET i == CHOOSE i \in 1..Len(fields) :
                    fields[i].Name = name /\ \A j \in (i + 1)..Len(fields) : fields[j].Name # name
        IN extractSimpleTypeName(fields[i].Type)]

NewClassNode(javaClass) ==
    [ID |-> Join(javaClass.Package, javaClass.Name), Type |-> determineNodeType(javaClass),
     Package |-> javaClass.Package, Method |-> <<>>, ReturnDetail |-> <<>>, Body |-> <<>>,
     Children |-> <<>>, Parent |-> Nil]

\* a field of a parser record, the zero value when the input leaves it out
Attr(r, f) == IF f \in DOMAIN r THEN r[f] ELSE <<>>

\* Method.GetHTTPMethod: the verb of the first mapping annotation.  An annotation is a record
\* with its Name and, when it has the attribute value, its Value; no RequestMapping of the
\* model has the attribute method.
GetHTTPMethod(method) ==
    LET anns == Attr(method, "Annotations")
        names == <<<<"G","e","t","M","a","p","p","i","n","g">>, <<"P","o","s","t","M","a","p","p","i","n","g">>, <<"P","u","t","M","a","p","p","i","n","g">>, <<"D","e","l","e","t","e","M","a","p","p","i","n","g">>, <<"P","a","t","c","h","M","a","p","p","i","n","g">>, <<"R","e","q","u","e","s","t","M","a","p","p","i","n","g">>>>
        verbs == <<<<"G","E","T">>, <<"P","O","S","T">>, <<"P","U","T">>, <<"D","E","L","E","T","E">>, <<"P","A","T","C","H">>, <<"G","E","T">>>>
        hits == {i \in 1..Len(anns) : anns[i].Name \in SeqRange(names)}
        first == CHOOSE i \in hits : \A j \in hits : i <= j
    IN IF hits = {} THEN <<>> ELSE verbs[CHOOSE k \in 1..Len(names) : names[k] = anns[first].Name]

\* extractURL for a class without a class-level path: GetMethodURL takes the value of the
\* first mapping annotation that has one, and combineURLPaths trims it
extractURL(javaClass, method) ==
    LET anns == Attr(method, "Annotations")
        hits == {i \in 1..Len(anns) : HasSuffix(anns[i].Name, <<"M","a","p","p","i","n","g">>) /\ "Value" \in DOMAIN anns[i]}
    IN IF hits = {} THEN <<>> ELSE TrimSpace(anns[CHOOSE i \in hits : \A j \in hits : i <= j].Value)

\* a method Node built without its Method field
NewMethodNodeUnnamed(javaClass, method, classIdx) ==
    [ID |-> Join(Join(javaClass.Package, javaClass.Name), method.Name),
     Type |-> determineNodeType(javaClass),
     Package |-> javaClass.Package, Method |-> <<>>, ReturnDetail |-> method.ReturnType,
     Body |-> method.Body, Children |-> <<>>, Parent |-> classIdx,
     Params |-> Attr(method, "Params"), URL |-> extractURL(javaClass, method),
     Annotation |-> GetHTTPMethod(method)]

NewMethodNode(javaClass, method, classIdx) ==
    [ID |-> Join(Join(javaClass.Package, javaClass.Name), method.Name),
     Type |-> determineNodeType(javaClass),
     Package |-> javaClass.Package, Method |-> method.Name, ReturnDetail |-> method.ReturnType,
     Body |-> method.Body, Children |-> <<>>, Parent |-> classIdx,
     Params |-> Attr(method, "Params"), URL |-> extractURL(javaClass, method),
     Annotation |-> GetHTTPMethod(method)]

NewSQLNode(namespace, sql) ==
    [ID |-> Join(namespace, sql.ID), Type |-> "SQL", Package |-> namespace, Method |-> sql.ID,
     ReturnDetail |-> <<>>, Body |-> <<>>, Children |-> <<>>, Parent |-> Nil]

\* the loop of AddJavaClass over javaClass.Methods, from method i on
RECURSIVE addMethods(_, _, _, _)
addMethods(st, javaClass, classIdx, i) ==
    IF i > Len(javaClass.Methods) THEN st
    ELSE LET method == javaClass.Methods[i]
             methodKey == Join(Join(javaClass.Package, javaClass.Name), method.Name)
             idx == Len(st.nodes) + 1
         IN addMethods(
                [nodes |-> [Append(st.nodes, NewMethodNode(javaClass, method, classIdx))
                                EXCEPT ![classIdx].Children = Append(@, idx)],
                 MethodMap |-> Put(st.MethodMap, methodKey, idx),
                 MethodBodyMap |-> Put(st.MethodBodyMap, methodKey, method.Body)],
                javaClass, classIdx, i + 1)

\* the loop of AddMapperXML over mapperXML.SQLs, from statement i on
RECURSIVE addSQLs(_, _, _)
addSQLs(st, mapperXML, i) ==
    IF i > Len(mapperXML.SQLs) THEN st
    ELSE LET sql == mapperXML.SQLs[i]
             idx == Len(st.nodes) + 1
         IN addSQLs([nodes |-> Append(st.nodes, NewSQLNode(mapperXML.Namespace, sql)),
                     SQLMap |-> Put(st.SQLMap, Join(mapperXML.Namespace, sql.ID), idx)],
                    mapperXML, i + 1)

\* the pool after AddJavaClass(javaClass) on the pool p
poolAddJavaClass(p, javaClass) ==
    LET fullClassName == Join(javaClass.Package, javaClass.Name)
        classIdx == Len(p.nodes) + 1
        st == addMethods([nodes |-> Append(p.nodes, NewClassNode(javaClass)),
                          MethodMap |-> p.MethodMap, MethodBodyMap |-> p.MethodBodyMap],
                         javaClass, classIdx, 1)
    IN [nodes |-> st.nodes,
        ClassMap |-> Put(p.ClassMap, fullClassName, classIdx),
        MethodMap |-> st.MethodMap,
        MethodBodyMap |-> st.MethodBodyMap,
        FieldTypeMap |-> Put(p.FieldTypeMap, fullClassName, buildFieldTypes(javaClass.Fields))]

GetClass(fullClassName) == IF fullClassName \in DOMAIN ClassMap THEN ClassMap[fullClassName] ELSE Nil

GetSQL(namespace, id) ==
    IF Join(namespace, id) \in DOMAIN SQLMap THEN SQLMap[Join(namespace, id)] ELSE Nil

GetFieldType(fullClassName, fieldName) ==
    IF fullClassName \in DOMAIN FieldTypeMap /\ fieldName \in DOMAIN FieldTypeMap[fullClassName]
    THEN FieldTypeMap[fullClassName][fieldName]
    ELSE <<>>

\* FindMethodByName: the set of result slices it can return.  An exact key gives one result;
\* otherwise the partial matches come in the order the range loop over MethodMap visits them.
FindMethodByName(fullClassName, methodName) ==
    LET exactKey == Join(fullClassName, methodName)
        prefix == fullClassName \o Dot
        partial == {key \in DOMAIN MethodMap : HasPrefix(key, prefix) /\ Contains(key, methodName)}
    IN IF exactKey \in DOMAIN MethodMap
       THEN {<<MethodMap[exactKey]>>}
       ELSE {[i \in 1..Cardinality(partial) |-> MethodMap[p[i]]] : p \in Perms(partial)}

\* ResolveFieldType: the set of class names it can return (the empty string on a miss).  When
\* the same-package candidate is not registered, the first class of that simple name met by the
\* range loop over ClassMap is returned.
ResolveFieldType(fullClassName, fieldName) ==
    LET rawType == GetFieldType(fullClassName, fieldName)
        idx == Index(rawType, "<")
        searchType == IF idx # -1 THEN Slice(rawType, 0, idx) ELSE rawType
        candidate == Join(extractPackage(fullClassName), searchType)
        scan == {fullName \in DOMAIN ClassMap : extractSimpleTypeName(fullName) = searchType}
    IN IF rawType = <<>> THEN {<<>>}
       ELSE IF GetClass(candidate) # Nil THEN {candidate}
       ELSE IF scan # {} THEN scan
       ELSE {<<>>}

(***************************************************************************)
(* Linker                                                                  *)
(***************************************************************************)
\* findClassBySimpleName: the set of class names it can return (the empty string on a miss)
findClassBySimpleName(simpleName) ==
    LET scan == {fullName \in DOMAIN ClassMap : extractSimpleTypeName(fullName) = simpleName}
    IN IF simpleName \in DOMAIN ClassMap THEN {simpleName}
       ELSE IF scan # {} THEN scan
       ELSE {<<>>}

\* the simple name of the caller's return type, as the return-type filter computes it
returnTypeName(returnDetail) ==
    LET lt == Index(returnDetail, "<")
        r1 == IF lt > 0 THEN Slice(returnDetail, 0, lt) ELSE returnDetail
        dot == LastIndex(r1, ".")
    IN IF dot >= 0 THEN Slice(r1, dot + 1, Len(r1)) ELSE r1

\* the filters at the head of the loop over calls: TRUE when the call site is skipped
isFilteredCall(call, methodNode) ==
    \/ ~isValidJavaIdentifier(call.Variable) \/ ~isValidJavaIdentifier(call.MethodName)
    \/ IsInvalidToken(call.Variable) \/ IsInvalidToken(call.MethodName)
    \/ call.Variable \in IgnoredTokens \/ call.MethodName \in IgnoredTokens
    \/ ~IsValidMethodCall(call.Variable) \/ ~IsValidMethodCall(call.MethodName)
    \/ (call.IsStatic /\ isConstructorCall(call.Variable))
    \/ (/\ call.IsStatic
        /\ methodNode.ReturnDetail # <<>>
        /\ call.Variable = returnTypeName(methodNode.ReturnDetail))

\* the set of targetNodes slices one call site can resolve to
resolveTargets(call, fullClassName) ==
    LET classes == IF call.IsStatic THEN findClassBySimpleName(call.Variable)
                   ELSE ResolveFieldType(fullClassName, call.Variable)
    IN UNION {IF targetClass = <<>> \/ IsDataClass(targetClass) THEN {<<>>}
              ELSE FindMethodByName(targetClass, call.MethodName) : targetClass \in classes}

RECURSIVE addChildren(_, _, _, _)
addChildren(ns, n, targets, i) ==
    IF i > Len(targets) THEN ns
    ELSE addChildren(AddChild(ns, n, targets[i]), n, targets, i + 1)

\* the body of the loop over calls for call i and the calls after it: every heap it can produce
RECURSIVE linkCalls(_, _, _, _, _)
linkCalls(ns, methodIdx, fullClassName, calls, i) ==
    IF i > Len(calls) THEN {ns}
    ELSE IF isFilteredCall(calls[i], ns[methodIdx])
         THEN linkCalls(ns, methodIdx, fullClassName, calls, i + 1)
         ELSE UNION {linkCalls(addChildren(ns, methodIdx, targets, 1), methodIdx,
                               fullClassName, calls, i + 1) :
                        targets \in resolveTargets(calls[i], fullClassName)}

\* the Nodes of the heap ns reached from the Nodes of S over at most k Children edges, one
\* at least
RECURSIVE reachedByChildren(_, _, _)
reachedByChildren(ns, S, k) ==
    LET step == UNION {SeqRange(ns[n].Children) : n \in S}
    IN IF k = 0 \/ step = {} THEN {} ELSE step \cup reachedByChildren(ns, step, k - 1)

\* an iteration that, after it attached the targets, walks the Children edges from the
\* method until no Node is left to walk: it has no outcome when the walk comes back to the
\* method
linkJavaMethodFollowingChildren(ns, methodKey) ==
    LET body == MethodBodyMap[methodKey]
        lastDot == LastIndex(methodKey, ".")
        walkEnds(linked) ==
            MethodMap[methodKey] \notin reachedByChildren(linked, {MethodMap[methodKey]}, Len(linked))
    IN IF body = <<>> \/ lastDot = -1 THEN {ns}
       ELSE {linked \in linkCalls(ns, MethodMap[methodKey], Slice(methodKey, 0, lastDot),
                                  FindMethodCalls(body), 1) : walkEnds(linked)}

\* one iteration of the loop of linkJavaMethods, for the entry methodKey of MethodMap
linkJavaMethod(ns, methodKey) ==
    LET body == MethodBodyMap[methodKey]
        lastDot == LastIndex(methodKey, ".")
    IN IF body = <<>> \/ lastDot = -1 THEN {ns}
       ELSE linkCalls(ns, MethodMap[methodKey], Slice(methodKey, 0, lastDot),
                      FindMethodCalls(body), 1)

\* one iteration of the loop of linkMappersToXML, for the entry methodKey of MethodMap
linkMapperMethod(ns, methodKey) ==
    LET lastDot == LastIndex(methodKey, ".")
        fullClassName == Slice(methodKey, 0, lastDot)
        classNode == GetClass(fullClassName)
        methodIdx == MethodMap[methodKey]
    IN IF lastDot = -1 THEN ns
       ELSE IF classNode # Nil /\ ns[classNode].Type = "MAPPER"
            THEN AddChild(ns, methodIdx, GetSQL(fullClassName, ns[methodIdx].Method))
            ELSE ns

(***************************************************************************)
(* The run: register the parsed files, then link (runAnalysis)             *)
(***************************************************************************)
Init ==
    /\ nodes = <<>>
    /\ ClassMap = EmptyMap
    /\ MethodMap = EmptyMap
    /\ MethodBodyMap = EmptyMap
    /\ SQLMap = EmptyMap
    /\ FieldTypeMap = EmptyMap
    /\ pc = "load"
    /\ loaded = {}
    /\ todo = {}
    /\ linkCount = 0
    /\ lastCall = <<>>
    /\ arg = <<>>
    /\ out = <<>>
    /\ op = "none"
    /\ stack = <<>>
    /\ visited = {}
    /\ ret = <<>>
    /\ typeArg = <<>>
    /\ fields1 = <<>>
    /\ fields2 = <<>>
    /\ spc = "idle"

AddJavaClass(javaClass) ==
    /\ pc = "load"
    /\ javaClass \notin loaded
    /\ Cardinality(loaded) < MaxFiles
    /\ LET p == poolAddJavaClass([nodes |-> nodes, ClassMap |-> ClassMap, MethodMap |-> MethodMap,
                                  MethodBodyMap |-> MethodBodyMap, FieldTypeMap |-> FieldTypeMap],
                                 javaClass)
       IN /\ nodes' = p.nodes
          /\ ClassMap' = p.ClassMap
          /\ MethodMap' = p.MethodMap
          /\ MethodBodyMap' = p.MethodBodyMap
          /\ FieldTypeMap' = p.FieldTypeMap
    /\ loaded' = loaded \cup {javaClass}
    /\ UNCHANGED <<SQLMap, pc, todo, linkCount, lastCall, callVars, schemaVars>>

AddMapperXML(mapperXML) ==
    /\ pc = "load"
    /\ mapperXML \notin loaded
    /\ Cardinality(loaded) < MaxFiles
    /\ LET st == addSQLs([nodes |-> nodes, SQLMap |-> SQLMap], mapperXML, 1)
       IN /\ nodes' = st.nodes
          /\ SQLMap' = st.SQLMap
    /\ loaded' = loaded \cup {mapperXML}
    /\ UNCHANGED <<ClassMap, MethodMap, MethodBodyMap, FieldTypeMap, pc, todo, linkCount,
                   lastCall, callVars, schemaVars>>

\* Link is entered: linkJavaMethods starts its range loop over MethodMap
LinkStart ==
    /\ pc \in {"load", "linked"}
    /\ linkCount < MaxLinks
    /\ pc' = "linkJava"
    /\ todo' = DOMAIN MethodMap
    /\ UNCHANGED <<poolVars, loaded, linkCount, lastCall, callVars, schemaVars>>

LinkJavaMethod ==
    /\ pc = "linkJava"
    /\ \E methodKey \in todo :
          /\ nodes' \in linkJavaMethod(nodes, methodKey)
          /\ todo' = todo \ {methodKey}
    /\ UNCHANGED <<ClassMap, MethodMap, MethodBodyMap, SQLMap, FieldTypeMap, pc, loaded,
                   linkCount, lastCall, callVars, schemaVars>>

\* linkJavaMethods returns; linkMappersToXML starts its range loop over MethodMap
LinkJavaDone ==
    /\ pc = "linkJava"
    /\ todo = {}
    /\ pc' = "linkXML"
    /\ todo' = DOMAIN MethodMap
    /\ UNCHANGED <<poolVars, loaded, linkCount, lastCall, callVars, schemaVars>>

LinkMapperMethod ==
    /\ pc = "linkXML"
    /\ \E methodKey \in todo :
          /\ nodes' = linkMapperMethod(nodes, methodKey)
          /\ todo' = todo \ {methodKey}
    /\ UNCHANGED <<ClassMap, MethodMap, MethodBodyMap, SQLMap, FieldTypeMap, pc, loaded,
                   linkCount, lastCall, callVars, schemaVars>>

LinkDone ==
    /\ pc = "linkXML"
    /\ todo = {}
    /\ pc' = "linked"
    /\ linkCount' = linkCount + 1
    /\ UNCHANGED <<poolVars, loaded, todo, lastCall, callVars, schemaVars>>

Next ==
    \/ \E javaClass \in JavaClasses : AddJavaClass(javaClass)
    \/ \E mapperXML \in MapperXMLs : AddMapperXML(mapperXML)
    \/ LinkStart
    \/ LinkJavaMethod
    \/ LinkJavaDone
    \/ LinkMapperMethod
    \/ LinkDone

Spec == Init /\ [][Next]_vars

(***************************************************************************)
(* Node.AddChild called directly, as the tests of the exporter do          *)
(***************************************************************************)
\* &model.Node{Method: method}
TestNode(method) ==
    [ID |-> method, Type |-> "SERVICE", Package |-> <<>>, Method |-> method,
     ReturnDetail |-> <<>>, Body |-> <<>>, Children |-> <<>>, Parent |-> Nil]

\* a controller method, a service method, a node with the empty name and one with a
\* whitespace-only name
TestNodes == <<TestNode(s_login), TestNode(s_processUser), TestNode(<<>>), TestNode(<<" ", "\t", " ">>)>>

\* length of the Children lists the calls build
MaxChildren == 3

RECURSIVE SumLen(_, _)
SumLen(ns, i) == IF i > Len(ns) THEN 0 ELSE Len(ns[i].Children) + SumLen(ns, i + 1)

NodeInit ==
    /\ nodes = TestNodes
    /\ ClassMap = EmptyMap
    /\ MethodMap = EmptyMap
    /\ MethodBodyMap = EmptyMap
    /\ SQLMap = EmptyMap
    /\ FieldTypeMap = EmptyMap
    /\ pc = "load"
    /\ loaded = {}
    /\ todo = {}
    /\ linkCount = 0
    /\ lastCall = <<>>
    /\ arg = <<>>
    /\ out = <<>>
    /\ op = "none"
    /\ stack = <<>>
    /\ visited = {}
    /\ ret = <<>>
    /\ typeArg = <<>>
    /\ fields1 = <<>>
    /\ fields2 = <<>>
    /\ spc = "idle"

\* n.AddChild(child) for a Node n and a child that is a Node or nil
AddChildCall(n, child) ==
    /\ SumLen(nodes, 1) < MaxChildren
    /\ nodes' = AddChild(nodes, n, child)
    /\ lastCall' = <<n, child>>
    /\ UNCHANGED <<ClassMap, MethodMap, MethodBodyMap, SQLMap, FieldTypeMap, runVars, schemaVars, callVars>>

NodeNext == \E n \in 1..Len(nodes), child \in 0..Len(nodes) : AddChildCall(n, child)

NodeSpec == NodeInit /\ [][NodeNext]_vars

(***************************************************************************)
(* Schema resolution (resolveSchema)                                       *)
(***************************************************************************)
s_A == <<"A">>
s_B == <<"B">>
s_C == <<"C">>
s_d == <<"d">>
s_x == <<"x">>
s_y == <<"y">>
s_z == <<"z">>
s_w == <<"w">>
s_n == <<"n">>
s_Object == <<"O","b","j","e","c","t">>
s_ListA == <<"L","i","s","t","<","A",">">>
s_ListB == <<"L","i","s","t","<","B",">">>
s_Dynamic == <<"(","D","y","n","a","m","i","c",")">>
s_MapJSONObject == <<"M","a","p"," ","/"," ","J","S","O","N"," ","O","b","j","e","c","t">>
s_StructureVaries == <<"S","t","r","u","c","t","u","r","e"," ","v","a","r","i","e","s"," ","d","y","n","a","m","i","c","a","l","l","y"," ","(","K","e","y","-","V","a","l","u","e"," ","p","a","i","r","s",")",".">>
s_FieldOf == <<"F","i","e","l","d"," ","o","f"," ">>

primitives == {<<"S","t","r","i","n","g">>, <<"i","n","t">>, <<"I","n","t","e","g","e","r">>, <<"l","o","n","g">>, <<"L","o","n","g">>, <<"d","o","u","b","l","e">>, <<"D","o","u","b","l","e">>, <<"f","l","o","a","t">>, <<"F","l","o","a","t">>, <<"b","o","o","l","e","a","n">>, <<"B","o","o","l","e","a","n">>, <<"c","h","a","r">>, <<"C","h","a","r","a","c","t","e","r">>}

isComplexType(typeName) ==
    LET idx == Index(typeName, "<")
        t == IF idx > 0 THEN Slice(typeName, 0, idx) ELSE typeName
    IN t \notin primitives

\* strings.ReplaceAll(s, old, "")
RECURSIVE RemoveAll(_, _)
RemoveAll(s, old) ==
    IF Len(s) = 0 THEN s
    ELSE IF HasPrefix(s, old) THEN RemoveAll(SubSeq(s, Len(old) + 1, Len(s)), old)
    ELSE <<Head(s)>> \o RemoveAll(Tail(s), old)

\* the loop of cleanTypeName that keeps extracting the last generic argument
RECURSIVE extractGenerics(_)
extractGenerics(cleaned) ==
    IF Contains(cleaned, <<"<">>) /\ Contains(cleaned, <<">">>)
    THEN LET startIdx == Index(cleaned, "<")
             endIdx == LastIndex(cleaned, ">")
         IN IF endIdx > startIdx
            THEN LET parts == Split(Slice(cleaned, startIdx + 1, endIdx), ",")
                 IN extractGenerics(TrimSpace(parts[Len(parts)]))
            ELSE cleaned
    ELSE cleaned

cleanTypeName(raw) == extractGenerics(RemoveAll(TrimSpace(raw), <<"[", "]">>))

systemTypes ==
    {<<"v","o","i","d">>, <<"i","n","t">>, <<"l","o","n","g">>, <<"d","o","u","b","l","e">>, <<"f","l","o","a","t">>, <<"b","o","o","l","e","a","n">>, <<"c","h","a","r">>, <<"S","t","r","i","n","g">>, <<"I","n","t","e","g","e","r">>, <<"L","o","n","g">>, <<"D","o","u","b","l","e">>, <<"F","l","o","a","t">>, <<"B","o","o","l","e","a","n">>, <<"C","h","a","r","a","c","t","e","r">>}
    \cup {<<"L","i","s","t">>, <<"S","e","t">>, <<"M","a","p">>, <<"O","p","t","i","o","n","a","l">>, <<"H","t","t","p","S","e","r","v","l","e","t","R","e","q","u","e","s","t">>, <<"H","t","t","p","S","e","r","v","l","e","t","R","e","s","p","o","n","s","e">>, <<"S","e","r","v","l","e","t","R","e","q","u","e","s","t">>, <<"S","e","r","v","l","e","t","R","e","s","p","o","n","s","e">>}
    \cup {<<"M","o","d","e","l">>, <<"M","o","d","e","l","A","n","d","V","i","e","w">>, <<"R","e","s","p","o","n","s","e","E","n","t","i","t","y">>, <<"H","t","t","p","E","n","t","i","t","y">>, <<"n","e","w">>, <<"O","b","j","e","c","t">>}

isSystemType(name) == name \in systemTypes

mapPrefixes == {<<"m","a","p">>, <<"h","a","s","h","m","a","p">>, <<"l","i","n","k","e","d","h","a","s","h","m","a","p">>, <<"t","r","e","e","m","a","p">>, <<"c","o","n","c","u","r","r","e","n","t","h","a","s","h","m","a","p">>}

isDynamicType(typeName) ==
    /\ typeName # <<>>
    /\ \/ typeName \in {<<"?">>, <<"T">>, <<"E">>, <<"K">>, <<"V">>}
       \/ typeName \in {<<"O","b","j","e","c","t">>, <<"j","a","v","a",".","l","a","n","g",".","O","b","j","e","c","t">>}
       \/ \E prefix \in mapPrefixes : HasPrefix(ToLower(typeName), prefix)

\* a getInnerType that hands back its argument, brackets included
getInnerTypeWhole(typeStr) == TrimSpace(typeStr)

getInnerType(typeStr) ==
    LET start == Index(typeStr, "<")
        end == LastIndex(typeStr, ">")
    IN IF start # -1 /\ end # -1 /\ end > start
       THEN TrimSpace(Slice(typeStr, start + 1, end))
       ELSE <<>>

collectionNames == {<<"l","i","s","t">>, <<"s","e","t">>, <<"c","o","l","l","e","c","t","i","o","n">>, <<"i","t","e","r","a","b","l","e">>, <<"p","a","g","e">>}
collectionPrefixes ==
    {<<"l","i","s","t","<">>, <<"a","r","r","a","y","l","i","s","t","<">>, <<"l","i","n","k","e","d","l","i","s","t","<">>, <<"s","e","t","<">>, <<"h","a","s","h","s","e","t","<">>, <<"t","r","e","e","s","e","t","<">>, <<"c","o","l","l","e","c","t","i","o","n","<">>, <<"i","t","e","r","a","b","l","e","<">>, <<"p","a","g","e","<">>, <<"s","l","i","c","e","<">>}

isCollectionType(typeName) ==
    /\ typeName # <<>>
    /\ LET lower == ToLower(typeName)
       IN \/ lower \in collectionNames
          \/ \E p \in collectionPrefixes : HasPrefix(lower, p)
          \/ Contains(lower, <<".","l","i","s","t">>)
          \/ Contains(lower, <<".","s","e","t">>)

vagueTypes == {<<"O","b","j","e","c","t">>, <<"j","a","v","a",".","l","a","n","g",".","O","b","j","e","c","t">>, <<"M","a","p">>}

\* the loop of deduplicateFields from element i on; unique holds one entry per Name
RECURSIVE dedupFrom(_, _, _)
dedupFrom(fields, i, unique) ==
    IF i > Len(fields) THEN unique
    ELSE LET f == fields[i]
             seen == {k \in 1..Len(unique) : unique[k].Name = f.Name}
         IN IF seen # {}
            THEN LET idx == CHOOSE k \in seen : TRUE
                     isExistingVague == unique[idx].Type \in vagueTypes
                     isNewConcrete == f.Type \notin vagueTypes
                 IN dedupFrom(fields, i + 1,
                              IF isExistingVague /\ isNewConcrete
                              THEN [unique EXCEPT ![idx] = f] ELSE unique)
            ELSE dedupFrom(fields, i + 1, Append(unique, f))

deduplicateFields(fields) == IF Len(fields) = 0 THEN fields ELSE dedupFrom(fields, 1, <<>>)

\* the depth cap of resolveSchemaRecursive
MaxDepth == 5
\* frames of resolveSchemaRecursive that may be live at once
MaxStack == 8

\* STEP 4 and 5: the keys of classMap the lookup of cleanType can end on (none: node is nil)
matchedKeys(cleanType) ==
    IF cleanType \in DOMAIN ClassMap THEN {cleanType}
    ELSE {key \in DOMAIN ClassMap : HasSuffix(key, Dot \o cleanType)}

\* STEP 7: the fieldTypes maps the lookup can end on; isNil marks the nil map
fieldTypesOf(matchedKey, cleanType) ==
    LET fuzzy == {key \in DOMAIN FieldTypeMap : HasSuffix(key, Dot \o cleanType)}
    IN IF matchedKey \in DOMAIN FieldTypeMap
       THEN {[isNil |-> FALSE, map |-> FieldTypeMap[matchedKey]]}
       ELSE IF fuzzy # {} THEN {[isNil |-> FALSE, map |-> FieldTypeMap[key]] : key \in fuzzy}
       ELSE {[isNil |-> TRUE, map |-> <<>>]}

DynamicParamDef(depth) ==
    [Name |-> s_Dynamic, Type |-> s_MapJSONObject, Depth |-> depth,
     Description |-> s_StructureVaries]

FieldParamDef(fieldName, fieldType, depth, cleanType) ==
    [Name |-> fieldName, Type |-> fieldType, Depth |-> depth,
     Description |-> s_FieldOf \o cleanType]

\* a frame of resolveSchemaRecursive at its first statement
NewFrame(typeName, depth) ==
    [typeName |-> typeName, depth |-> depth, stage |-> "enter", cleanType |-> <<>>,
     fieldTypes |-> <<>>, remaining |-> {}, results |-> <<>>]

\* a return that ends the loop of the caller when the call was cut and returned nothing
RECURSIVE returnToEndingLoop(_, _)
returnToEndingLoop(stk, value) ==
    IF stk = <<>> THEN [stack |-> <<>>, ret |-> value]
    ELSE IF stk[Len(stk)].stage = "unwrap"
    THEN returnToEndingLoop(SubSeq(stk, 1, Len(stk) - 1), value)
    ELSE [stack |-> [stk EXCEPT ![Len(stk)].stage = "fields", ![Len(stk)].results = @ \o value,
                                ![Len(stk)].remaining = IF value = <<>> THEN {} ELSE @],
          ret |-> <<>>]

\* a call returns value to the frames stk of its callers: a frame that unwrapped a collection
\* returns the value in turn, a frame in the loop over its fields appends it to its results
RECURSIVE returnTo(_, _)
returnTo(stk, value) ==
    IF stk = <<>> THEN [stack |-> <<>>, ret |-> value]
    ELSE IF stk[Len(stk)].stage = "unwrap" THEN returnTo(SubSeq(stk, 1, Len(stk) - 1), value)
    ELSE [stack |-> [stk EXCEPT ![Len(stk)].stage = "fields", ![Len(stk)].results = @ \o value],
          ret |-> <<>>]

Callers == SubSeq(stack, 1, Len(stack) - 1)

\* resolveSchemaRecursive as a function: the lists a call can return, one for each key the
\* lookups can end on and each order the range loop can take the fields in.  path holds the
\* types the callers marked as visited.
RECURSIVE flattenings(_, _, _)
RECURSIVE flattenFields(_, _, _, _, _, _)
flattenFields(fieldTypes, order, i, depth, cleanType, path) ==
    IF i > Len(order) THEN {<<>>}
    ELSE LET fieldType == fieldTypes[order[i]]
             paramDef == FieldParamDef(order[i], fieldType, depth, cleanType)
             childFields == IF isComplexType(fieldType)
                            THEN flattenings(fieldType, depth + 1, path) ELSE {<<>>}
         IN {<<paramDef>> \o children \o rest :
                children \in childFields,
                rest \in flattenFields(fieldTypes, order, i + 1, depth, cleanType, path)}

flattenings(typeName, depth, path) ==
    LET inner == getInnerType(typeName)
        cleanType == cleanTypeName(typeName)
    IN IF depth > MaxDepth THEN {<<>>}
       ELSE IF isCollectionType(typeName) /\ inner # <<>> THEN flattenings(inner, depth, path)
       ELSE IF cleanType \in path THEN {<<>>}
       ELSE IF isDynamicType(cleanType) THEN {<<DynamicParamDef(depth)>>}
       ELSE IF isSystemType(cleanType) THEN {<<>>}
       ELSE UNION {IF fieldTypes.isNil THEN {<<>>}
                   ELSE UNION {flattenFields(fieldTypes.map, order, 1, depth, cleanType,
                                             path \cup {cleanType})
                               : order \in Perms(DOMAIN fieldTypes.map)}
                   : fieldTypes \in UNION {fieldTypesOf(matchedKey, cleanType)
                                           : matchedKey \in matchedKeys(cleanType)}}

\* classes with fields only, as the Java parser hands them to AddJavaClass
SchemaClass(package, name, fields) ==
    [Package |-> package, Name |-> name, Annotations |-> <<>>, Fields |-> fields,
     Methods |-> <<>>]

Field(name, type) == [Name |-> name, Type |-> type]

\* number of classes of the chain N1 -> N2 -> ... whose last class has a String field
ChainLen == 6
DigitChars == <<"1", "2", "3", "4", "5", "6", "7", "8", "9">>
ChainName(i) == <<"N", DigitChars[i]>>
ChainClasses ==
    [i \in 1..ChainLen |->
        SchemaClass(s_c, ChainName(i),
                    <<Field(s_n, IF i < ChainLen THEN ChainName(i + 1) ELSE s_String)>>)]

\* c.A {x, [y]}, c.B {x}, c.C {z} and d.A {w}: two classes share the simple name A
SchemaClasses(tx, ty, tb, tc) ==
    <<SchemaClass(s_c, s_A, <<Field(s_x, tx)>> \o (IF ty = <<>> THEN <<>> ELSE <<Field(s_y, ty)>>)),
      SchemaClass(s_c, s_B, <<Field(s_x, tb)>>),
      SchemaClass(s_c, s_C, <<Field(s_z, tc)>>),
      SchemaClass(s_d, s_A, <<Field(s_w, s_String)>>)>>

SchemaInputs ==
    {[classes |-> SchemaClasses(tx, ty, tb, tc), typeName |-> t] :
        tx \in {s_B, s_ListA}, ty \in {<<>>, s_Object},
        tb \in {s_C, s_A}, tc \in {s_String, s_ListB},
        t \in {s_A, s_ListA, Join(s_c, s_A)}}
    \cup {[classes |-> ChainClasses, typeName |-> ChainName(1)]}

RECURSIVE poolOf(_, _, _)
poolOf(p, classes, i) ==
    IF i > Len(classes) THEN p ELSE poolOf(poolAddJavaClass(p, classes[i]), classes, i + 1)

\* the pool after the classes of one input were registered, and the type name to resolve
SchemaInit ==
    \E in \in SchemaInputs :
        LET p == poolOf([nodes |-> <<>>, ClassMap |-> EmptyMap, MethodMap |-> EmptyMap,
                         MethodBodyMap |-> EmptyMap, FieldTypeMap |-> EmptyMap], in.classes, 1)
        IN /\ nodes = p.nodes
           /\ ClassMap = p.ClassMap
           /\ MethodMap = p.MethodMap
           /\ MethodBodyMap = p.MethodBodyMap
           /\ FieldTypeMap = p.FieldTypeMap
           /\ SQLMap = EmptyMap
           /\ pc = "linked"
           /\ loaded = SeqRange(in.classes)
           /\ todo = {}
           /\ linkCount = 1
           /\ lastCall = <<>>
           /\ arg = <<>>
           /\ out = <<>>
           /\ op = "none"
           /\ stack = <<>>
           /\ visited = {}
           /\ ret = <<>>
           /\ typeArg = in.typeName
           /\ fields1 = <<>>
           /\ fields2 = <<>>
           /\ spc = "idle"

\* resolveSchema(typeArg, ...) is called, for the first and for the second time
ResolveSchemaCall ==
    /\ spc \in {"idle", "between"}
    /\ spc' = IF spc = "idle" THEN "first" ELSE "second"
    /\ stack' = <<NewFrame(typeArg, 1)>>
    /\ visited' = {}
    /\ UNCHANGED <<poolVars, runVars, lastCall, callVars, ret, typeArg, fields1, fields2>>

\* resolveSchemaRecursive from its first statement up to the loop over the fields
RecursiveEnter ==
    /\ stack # <<>>
    /\ LET top == stack[Len(stack)]
           inner == getInnerType(top.typeName)
           cleanType == cleanTypeName(top.typeName)
       IN /\ top.stage = "enter"
          /\ IF top.depth > MaxDepth
             THEN /\ stack' = returnTo(Callers, <<>>).stack
                  /\ ret' = returnTo(Callers, <<>>).ret
                  /\ UNCHANGED visited
             ELSE IF isCollectionType(top.typeName) /\ inner # <<>>
             THEN /\ Len(stack) < MaxStack
                  /\ stack' = Append([stack EXCEPT ![Len(stack)].stage = "unwrap"],
                                     NewFrame(inner, top.depth))
                  /\ UNCHANGED <<visited, ret>>
             ELSE IF cleanType \in visited
             THEN /\ stack' = returnTo(Callers, <<>>).stack
                  /\ ret' = returnTo(Callers, <<>>).ret
                  /\ UNCHANGED visited
             ELSE IF isDynamicType(cleanType)
             THEN /\ stack' = returnTo(Callers, <<DynamicParamDef(top.depth)>>).stack
                  /\ ret' = returnTo(Callers, <<DynamicParamDef(top.depth)>>).ret
                  /\ UNCHANGED visited
             ELSE IF isSystemType(cleanType) \/ matchedKeys(cleanType) = {}
             THEN /\ stack' = returnTo(Callers, <<>>).stack
                  /\ ret' = returnTo(Callers, <<>>).ret
                  /\ UNCHANGED visited
             ELSE \E matchedKey \in matchedKeys(cleanType) :
                  \E fieldTypes \in fieldTypesOf(matchedKey, cleanType) :
                     IF fieldTypes.isNil
                     THEN /\ stack' = returnTo(Callers, <<>>).stack
                          /\ ret' = returnTo(Callers, <<>>).ret
                          /\ UNCHANGED visited
                     ELSE /\ stack' = [stack EXCEPT ![Len(stack)] =
                                          [top EXCEPT !.stage = "fields", !.cleanType = cleanType,
                                                      !.fieldTypes = fieldTypes.map,
                                                      !.remaining = DOMAIN fieldTypes.map]]
                          /\ visited' = visited \cup {cleanType}
                          /\ UNCHANGED ret
    /\ UNCHANGED <<poolVars, runVars, lastCall, callVars, typeArg, fields1, fields2, spc>>

\* one iteration of the range loop over fieldTypes: the field is appended and, when its type is
\* complex, resolveSchemaRecursive is called for it one level deeper
RecursiveField ==
    /\ stack # <<>>
    /\ LET top == stack[Len(stack)]
       IN /\ top.stage = "fields"
          /\ \E fieldName \in top.remaining :
                LET fieldType == top.fieldTypes[fieldName]
                    paramDef == FieldParamDef(fieldName, fieldType, top.depth, top.cleanType)
                    next == [top EXCEPT !.remaining = @ \ {fieldName},
                                        !.results = Append(@, paramDef)]
                IN IF isComplexType(fieldType)
                   THEN /\ Len(stack) < MaxStack
                        /\ stack' = Append([stack EXCEPT ![Len(stack)] =
                                                [next EXCEPT !.stage = "await"]],
                                           NewFrame(fieldType, top.depth + 1))
                   ELSE stack' = [stack EXCEPT ![Len(stack)] = next]
    /\ UNCHANGED <<poolVars, runVars, lastCall, callVars, visited, ret, typeArg, fields1, fields2, spc>>

\* the loop over fieldTypes is over: the frame returns its results and the deferred function
\* removes cleanType from visited
RecursiveReturn ==
    /\ stack # <<>>
    /\ LET top == stack[Len(stack)]
       IN /\ top.stage = "fields"
          /\ top.remaining = {}
          /\ stack' = returnTo(Callers, top.results).stack
          /\ ret' = returnTo(Callers, top.results).ret
          /\ visited' = visited \ {top.cleanType}
    /\ UNCHANGED <<poolVars, runVars, lastCall, callVars, typeArg, fields1, fields2, spc>>

\* resolveSchema returns the de-duplicated fields of its call of resolveSchemaRecursive
ResolveSchemaReturn ==
    /\ spc \in {"first", "second"}
    /\ stack = <<>>
    /\ IF spc = "first"
       THEN /\ fields1' = deduplicateFields(ret)
            /\ spc' = "between"
            /\ UNCHANGED fields2
       ELSE /\ fields2' = deduplicateFields(ret)
            /\ spc' = "done"
            /\ UNCHANGED fields1
    /\ ret' = <<>>
    /\ UNCHANGED <<poolVars, runVars, lastCall, callVars, stack, visited, typeArg>>

SchemaNext ==
    \/ ResolveSchemaCall
    \/ RecursiveEnter
    \/ RecursiveField
    \/ RecursiveReturn
    \/ ResolveSchemaReturn

\* the calls run to completion: a step that can be taken is taken
SchemaSpec == SchemaInit /\ [][SchemaNext]_vars /\ WF_vars(SchemaNext)

(***************************************************************************)
(* Regular expressions (package regexp) as the Extractor and the parser    *)
(* use them: a pattern is a sequence of items, matched with the leftmost-  *)
(* first preference of Go.                                                 *)
(***************************************************************************)
\* a literal text
Lit(s) == [k |-> "lit", s |-> s, cap |-> FALSE]
\* (?:a|b|c): alternatives in their order of preference
Alt(ss) == [k |-> "alt", s |-> ss, cap |-> FALSE]
\* [set]* and [set]+ (min 0 or 1), [^set]* and [^set]+ when neg; cap when the item is a group
Greedy(set, neg, min, cap) ==
    [k |-> "greedy", set |-> set, neg |-> neg, min |-> min, max |-> 0, cap |-> cap]
\* the same with *? and +?
Lazy(set, neg, min, cap) ==
    [k |-> "lazy", set |-> set, neg |-> neg, min |-> min, max |-> 0, cap |-> cap]
\* [set] and [^set]: exactly one character
One(set, neg, cap) ==
    [k |-> "greedy", set |-> set, neg |-> neg, min |-> 1, max |-> 1, cap |-> cap]
\* \w+ and (\w+); \s* and \s+
Word(cap) == Greedy(WordSet, FALSE, 1, cap)
Sp(min) == Greedy(SpaceSet, FALSE, min, FALSE)
\* (?:p)?
Opt(p) == [k |-> "opt", p |-> p, cap |-> FALSE]
\* \b
WordBoundary == [k |-> "wb", cap |-> FALSE]
\* (?:^|[set])
StartOr(set) == [k |-> "startOr", set |-> set, cap |-> FALSE]

\* One match of pat[k..] that starts exactly at position i: <<>> when there is none, else
\* <<[end |-> position of the last character matched, caps |-> the groups in order]>>
RECURSIVE MatchAt(_, _, _, _)
MatchAt(s, i, pat, k) ==
    IF k > Len(pat) THEN <<[end |-> i - 1, caps |-> <<>>]>>
    ELSE
    LET it == pat[k]
        rest(j) == MatchAt(s, j, pat, k + 1)
        in(c) == (c \in it.set) # it.neg
        last == IF it.max > 0 /\ i + it.max - 1 < Len(s) THEN i + it.max - 1 ELSE Len(s)
        runEnd == IF \A j \in i..last : in(s[j]) THEN last
                  ELSE (CHOOSE j \in i..last : ~in(s[j]) /\ \A m \in i..(j - 1) : in(s[m])) - 1
        ends == {j \in (i + it.min - 1)..runEnd : rest(j + 1) # <<>>}
        pick == IF it.k = "greedy" THEN CHOOSE j \in ends : \A m \in ends : m <= j
                ELSE CHOOSE j \in ends : \A m \in ends : j <= m
        alts == {a \in 1..Len(it.s) : /\ i + Len(it.s[a]) - 1 <= Len(s)
                                       /\ SubSeq(s, i, i + Len(it.s[a]) - 1) = it.s[a]
                                       /\ rest(i + Len(it.s[a])) # <<>>}
        isWord(j) == j >= 1 /\ j <= Len(s) /\ s[j] \in WordSet
    IN CASE it.k = "lit" ->
                IF i + Len(it.s) - 1 <= Len(s) /\ SubSeq(s, i, i + Len(it.s) - 1) = it.s
                THEN rest(i + Len(it.s)) ELSE <<>>
         [] it.k = "alt" ->
                IF alts = {} THEN <<>>
                ELSE rest(i + Len(it.s[CHOOSE a \in alts : \A b \in alts : a <= b]))
         [] it.k \in {"greedy", "lazy"} ->
                IF ends = {} THEN <<>>
                ELSE LET r == rest(pick + 1)
                     IN IF it.cap
                        THEN <<[end |-> r[1].end, caps |-> <<SubSeq(s, i, pick)>> \o r[1].caps]>>
                        ELSE r
         [] it.k = "opt" ->
                LET r == MatchAt(s, i, it.p \o SubSeq(pat, k + 1, Len(pat)), 1)
                IN IF r # <<>> THEN r ELSE rest(i)
         [] it.k = "wb" -> IF isWord(i - 1) # isWord(i) THEN rest(i) ELSE <<>>
         [] it.k = "startOr" ->
                IF i = 1 /\ rest(i) # <<>> THEN rest(i)
                ELSE IF i <= Len(s) /\ s[i] \in it.set THEN rest(i + 1) ELSE <<>>

\* Regexp.FindStringSubmatch on s[from..]: the leftmost match, <<>> when there is none
FindSubmatch(s, pat, from) ==
    LET leftmost(starts) ==
            IF starts = {} THEN <<>>
            ELSE <<MatchAt(s, CHOOSE i \in starts : \A j \in starts : i <= j, pat, 1)[1]>>
    IN leftmost({i \in from..(Len(s) + 1) : MatchAt(s, i, pat, 1) # <<>>})

\* Regexp.FindAllStringSubmatch(s, -1): each search resumes after the previous match
RECURSIVE FindAllSubmatch(_, _, _)
FindAllSubmatch(s, pat, from) ==
    LET andAfter(m) ==
            IF m = <<>> THEN <<>> ELSE <<m[1].caps>> \o FindAllSubmatch(s, pat, m[1].end + 1)
    IN andAfter(FindSubmatch(s, pat, from))

(***************************************************************************)
(* Dynamic return-type rescue (inferMapSchema)                             *)
(***************************************************************************)
\* resolveSchemaRecursive(typeName, ..., depth, {}) for a type name that matches no key of
\* ClassMap: steps 0 to 6 of the function.  The rescue inputs of the model name no
\* registered class in a put value, a declaration or a return type.
RECURSIVE resolveSchemaNoClass(_, _)
resolveSchemaNoClass(typeName, depth) ==
    IF depth > MaxDepth THEN <<>>
    ELSE IF isCollectionType(typeName) /\ getInnerType(typeName) # <<>>
    THEN resolveSchemaNoClass(getInnerType(typeName), depth)
    ELSE IF isDynamicType(cleanTypeName(typeName)) THEN <<DynamicParamDef(depth)>>
    ELSE <<>>

applyTypeHeuristics(key, currentType) ==
    IF ToLower(key) \in {<<"t","o","t","a","l","e","l","e","m","e","n","t","s">>, <<"t","o","t","a","l","p","a","g","e","s">>, <<"t","o","t","a","l","c","o","u","n","t">>} THEN <<"l","o","n","g">>
    ELSE IF ToLower(key) \in {<<"s","i","z","e">>, <<"p","a","g","e">>, <<"n","u","m","b","e","r">>, <<"n","u","m","b","e","r","o","f","e","l","e","m","e","n","t","s">>} THEN <<"i","n","t">>
    ELSE currentType

\* the value type the put scan gives the value text valueStr of a put call in body
putValueType(body, valueStr) ==
    LET reConstructor == <<Lit(<<"n","e","w">>), Sp(1),
                           Greedy(WordSet \cup SpaceSet \cup {"<", ">", ",", "."}, FALSE, 1, TRUE),
                           Sp(0), Lit(<<"(">>)>>
        reDecl == <<StartOr({";", "{", "}"}), Sp(0), One(UpperSet, FALSE, TRUE),
                    Greedy(WordSet \cup {"<", ">"}, FALSE, 0, TRUE), Sp(1), Lit(valueStr),
                    Sp(0), Lit(<<"=">>)>>
        typeOf(cMatches, dMatches) ==
            IF cMatches # <<>> THEN cMatches[1].caps[1]
            ELSE IF HasPrefix(valueStr, <<"\"">>) THEN <<"S","t","r","i","n","g">>
            ELSE IF valueStr \in {<<"t","r","u","e">>, <<"f","a","l","s","e">>} THEN <<"b","o","o","l","e","a","n">>
            ELSE IF valueStr # <<>> /\ \A i \in 1..Len(valueStr) : valueStr[i] \in DigitSet THEN <<"i","n","t">>
            ELSE IF dMatches # <<>> THEN dMatches[1].caps[1] \o dMatches[1].caps[2]
            ELSE <<"O","b","j","e","c","t">>
    IN typeOf(FindSubmatch(valueStr, reConstructor, 1), FindSubmatch(body, reDecl, 1))

\* the loop over the put calls on the variable v: one ParamDef per call, followed by the
\* fields of a complex value type; dotAll is the (?s) flag of the blind scan
RECURSIVE putParams(_, _, _)
putParams(body, putMatches, description) ==
    IF putMatches = <<>> THEN <<>>
    ELSE LET key == Head(putMatches)[1]
             params(valueType) ==
                 <<[Name |-> key, Type |-> valueType, Depth |-> 1, Description |-> description]>>
                 \o (IF isComplexType(valueType) THEN resolveSchemaNoClass(valueType, 2) ELSE <<>>)
         IN params(applyTypeHeuristics(key, putValueType(body, TrimSpace(Head(putMatches)[2]))))
            \o putParams(body, Tail(putMatches), description)

scanPuts(body, v, dotAll, description) ==
    LET rePut == <<WordBoundary, Lit(v \o <<".","p","u","t","(">>), Sp(0), Lit(<<"\"">>),
                   Greedy({"\""}, TRUE, 1, TRUE), Lit(<<"\"">>), Sp(0), Lit(<<",">>), Sp(0),
                   Lazy(IF dotAll THEN {} ELSE {"\n"}, TRUE, 0, TRUE), Sp(0), Lit(<<")",";">>)>>
    IN putParams(body, FindAllSubmatch(body, rePut, 1), description)

\* Strategy 1: the variable returned directly, through a constructor or through a static
\* factory, when it is declared as a Map, and the put calls on it
localMapInference(body) ==
    LET return == <<Lit(<<"r","e","t","u","r","n">>), Sp(1)>>
        arg1 == <<Sp(0), Word(TRUE), Sp(0), Alt(<<<<",">>, <<")">>>>)>>
        reDirect == return \o <<Word(TRUE), Sp(0), Lit(<<";">>)>>
        reWrapped == return \o <<Lit(<<"n","e","w">>), Sp(1), Greedy(WordSet \cup {"<", ">"}, FALSE, 1, FALSE),
                              Opt(<<Lit(<<"(">>), Greedy({"\n"}, TRUE, 0, FALSE), Lit(<<")">>)>>),
                              Sp(0), Lit(<<"(">>)>> \o arg1
        reFactory == return \o <<Word(FALSE), Lit(Dot), Word(FALSE), Sp(0), Lit(<<"(">>)>> \o arg1
        captured(pats, hit) ==
            IF hit = {} THEN <<>>
            ELSE FindSubmatch(body, pats[CHOOSE i \in hit : \A j \in hit : i <= j], 1)[1].caps[1]
        first(pats) == captured(pats, {i \in 1..Len(pats) : FindSubmatch(body, pats[i], 1) # <<>>})
        reMapDecl(targetVar) == <<WordBoundary, Alt(<<<<"M","a","p">>, <<"H","a","s","h","M","a","p">>, <<"L","i","n","k","e","d","H","a","s","h","M","a","p">>, <<"M","o","d","e","l","M","a","p">>>>),
                       Opt(<<Lit(<<"<">>), Lazy({"\n"}, TRUE, 0, FALSE), Lit(<<">">>)>>), Sp(1),
                       WordBoundary, Lit(targetVar), WordBoundary, Sp(0), Lit(<<"=">>)>>
        putsOn(targetVar) ==
            IF /\ targetVar \notin {<<>>} \cup {<<"n","u","l","l">>, <<"t","r","u","e">>, <<"f","a","l","s","e">>}
               /\ FindSubmatch(body, reMapDecl(targetVar), 1) # <<>>
            THEN scanPuts(body, targetVar, FALSE, <<"i","n","f","e","r","r","e","d"," ","m","a","p"," ","k","e","y">>)
            ELSE <<>>
    IN putsOn(first(<<reDirect, reWrapped, reFactory>>))

\* the set of Nodes resolveImplementationClass can return (Nil when nothing matches): the
\* fuzzy match returns at the first Impl key and else the last plain key its range loop
\* over classMap visits
resolveImplementationClass(targetType) ==
    LET impl == targetType \o <<"I","m","p","l">>
        implKeys == {key \in DOMAIN ClassMap : HasSuffix(key, Dot \o impl)}
        plainKeys == {key \in DOMAIN ClassMap : HasSuffix(key, Dot \o targetType)}
    IN IF targetType \in DOMAIN ClassMap
       THEN IF HasSuffix(targetType, <<"I","m","p","l">>) THEN {ClassMap[targetType]}
            ELSE IF impl \in DOMAIN ClassMap THEN {ClassMap[impl]}
            ELSE {ClassMap[targetType]}
       ELSE IF impl \in DOMAIN ClassMap THEN {ClassMap[impl]}
       ELSE IF implKeys # {} THEN {ClassMap[key] : key \in implKeys}
       ELSE IF plainKeys # {} THEN {ClassMap[key] : key \in plainKeys}
       ELSE {Nil}

isAmbiguousType(typeName) ==
    \/ typeName \in {<<>>, <<"v","o","i","d">>}
    \/ isDynamicType(typeName)
    \/ Contains(typeName, <<"<","O","b","j","e","c","t",">">>)
    \/ Contains(typeName, <<"<","?",">">>)
    \/ (isCollectionType(typeName) /\ ~Contains(typeName, <<"<">>))

\* the field-type mapping the hop of the Node n looks the receiver up in: that of the key
\* n.Parent.ID, none when n has no parent or the key is not in FieldTypeMap
hopFieldTypes(ns, n) ==
    IF ns[n].Parent # Nil /\ ns[ns[n].Parent].ID \in DOMAIN FieldTypeMap
    THEN FieldTypeMap[ns[ns[n].Parent].ID]
    ELSE EmptyMap

\* Strategy 2, the loop over the calls of the return statement from candidate i on: the set
\* of outcomes, <<child>> when the hop reaches the method Node child and <<>> when no
\* candidate resolves
RECURSIVE serviceHop(_, _, _, _)
serviceHop(ns, n, candidates, i) ==
    IF i > Len(candidates) THEN {<<>>}
    ELSE LET varName == candidates[i][1]
             methodName == candidates[i][2]
             classFields == hopFieldTypes(ns, n)
             hits(serviceNode) == {j \in 1..Len(ns[serviceNode].Children) :
                                      ns[ns[serviceNode].Children[j]].Method = methodName}
         IN IF varName \notin DOMAIN classFields THEN serviceHop(ns, n, candidates, i + 1)
            ELSE UNION {IF serviceNode = Nil \/ hits(serviceNode) = {}
                        THEN serviceHop(ns, n, candidates, i + 1)
                        ELSE {<<ns[serviceNode].Children[
                                   CHOOSE j \in hits(serviceNode) : \A m \in hits(serviceNode) : j <= m]>>}
                        : serviceNode \in resolveImplementationClass(cleanTypeName(classFields[varName]))}

\* the calls varName.methodName( of the first return statement of body
hopCandidates(body) ==
    LET reReturn == <<Lit(<<"r","e","t","u","r","n">>), Sp(1), Lazy({}, TRUE, 0, TRUE), Lit(<<";">>)>>
        returnMatch == FindSubmatch(body, reReturn, 1)
        reCall == <<Word(TRUE), Lit(Dot), Word(TRUE), Lit(<<"(">>)>>
    IN IF returnMatch = <<>> THEN <<>> ELSE FindAllSubmatch(returnMatch[1].caps[1], reCall, 1)

\* the variables, in order and without repetition, of a list of matches
RECURSIVE seenVars(_, _)
seenVars(matches, seen) ==
    IF matches = <<>> THEN <<>>
    ELSE IF Head(matches)[1] \in seen THEN seenVars(Tail(matches), seen)
    ELSE <<Head(matches)[1]>> \o seenVars(Tail(matches), seen \cup {Head(matches)[1]})

\* Strategy 3: the put calls on every variable a Map is assigned to, or else on the common
\* variable names
blindMapScan(body) ==
    LET reMapBlind == <<Word(TRUE), Sp(0), Lit(<<"=">>), Sp(0), Lit(<<"n","e","w">>), Sp(1),
                        Opt(<<Greedy(WordSet \cup {"."}, FALSE, 1, FALSE), Lit(Dot)>>),
                        Alt(<<<<"H","a","s","h">>, <<"L","i","n","k","e","d","H","a","s","h">>, <<"T","r","e","e">>, <<"M","o","d","e","l">>, <<"C","o","n","c","u","r","r","e","n","t","H","a","s","h">>>>), Lit(<<"M","a","p">>)>>
        commonNames == <<<<"m","a","p">>, <<"r","e","s","u","l","t">>, <<"d","a","t","a">>, <<"r","e","s">>, <<"r","e","s","p","o","n","s","e">>>>
        common == SelectSeq(commonNames, LAMBDA name : Contains(body, name \o <<".","p","u","t">>))
        orCommon(blindVars) == IF blindVars = <<>> THEN common ELSE blindVars
        putsOn(candidateVars) ==
            LET scan[i \in 0..Len(candidateVars)] ==
                    IF i = 0 THEN <<>>
                    ELSE scan[i - 1] \o scanPuts(body, candidateVars[i], TRUE, <<"s","c","a","v","e","n","g","e","d"," ","m","a","p"," ","k","e","y">>)
            IN scan[Len(candidateVars)]
    IN putsOn(orCommon(seenVars(FindAllSubmatch(body, reMapBlind, 1), {})))

\* Strategy 4: the declared type of the variable the method returns
returnVariableTrace(body) ==
    LET reSimple == <<Lit(<<"r","e","t","u","r","n">>), Sp(1), Word(TRUE), Sp(0), Lit(<<";">>)>>
        reComplex == <<Lit(<<"r","e","t","u","r","n">>), Sp(1), Greedy({";"}, TRUE, 0, FALSE), Lit(<<"(">>), Sp(0),
                       Word(TRUE), Sp(0), Lit(<<")">>)>>
        returned(simple, complex) ==
            IF simple # <<>> THEN simple[1].caps[1]
            ELSE IF complex # <<>> THEN complex[1].caps[1] ELSE <<>>
        reDecl(returnVar) ==
            <<Greedy(WordSet \cup {"<", ">", "[", "]"}, FALSE, 1, TRUE), Sp(1),
              WordBoundary, Lit(returnVar), WordBoundary, Sp(0), One({":", "=", ";"}, FALSE, FALSE)>>
        typed(returnVar, declType) ==
            IF isSystemType(declType)
            THEN <<[Name |-> <<"r","e","s","u","l","t">>, Type |-> declType, Depth |-> 0,
                    Description |-> <<"R","e","t","u","r","n"," ","v","a","l","u","e"," ","(">> \o returnVar \o <<")">>]>>
            ELSE deduplicateFields(resolveSchemaNoClass(declType, 1))
        declared(returnVar, match) ==
            IF returnVar \in {<<>>} \cup {<<"n","u","l","l">>, <<"t","r","u","e">>, <<"f","a","l","s","e">>} \/ match = <<>> THEN <<>>
            ELSE typed(returnVar, match[1].caps[1])
        trace(returnVar) == declared(returnVar, FindSubmatch(body, reDecl(returnVar), 1))
    IN trace(returned(FindSubmatch(body, reSimple, 1), FindSubmatch(body, reComplex, 1)))

\* hops one analysis follows
MaxHops == 3

\* one activation of inferMapSchema(n, classMap, fieldTypeMap): the set of its outcomes (one
\* for each Node resolveImplementationClass can pick).  An outcome with hop = Nil returns
\* fields; an outcome with another hop returns what the call inferMapSchema(hop, ...) returns
inferOutcomes(ns, n) ==
    LET body == ns[n].Body
        returns(fields) == [hop |-> Nil, fields |-> fields]
        hopTo(child) ==
            IF ns[child].ReturnDetail # <<>> /\ ~isAmbiguousType(ns[child].ReturnDetail)
            THEN returns(deduplicateFields(resolveSchemaNoClass(ns[child].ReturnDetail, 1)))
            ELSE [hop |-> child, fields |-> <<>>]
        strategies(results, blind, resolvedFields) ==
            IF Len(results) > 0 THEN {returns(deduplicateFields(results))}
            ELSE {IF target # <<>> THEN hopTo(target[1])
                  ELSE IF Len(blind) > 0 THEN returns(deduplicateFields(blind))
                  ELSE IF Len(resolvedFields) > 0 THEN returns(resolvedFields)
                  ELSE returns(deduplicateFields(<<>>))
                  : target \in serviceHop(ns, n, hopCandidates(body), 1)}
    IN IF body = <<>> THEN {returns(<<>>)}
       ELSE strategies(localMapInference(body), blindMapScan(body), returnVariableTrace(body))

\* the set of ParamDef lists inferMapSchema(n, classMap, fieldTypeMap) can return; the empty
\* set when the call is still hopping after MaxHops hops
RECURSIVE inferMapSchema(_, _, _)
inferMapSchema(ns, n, hops) ==
    UNION {IF o.hop = Nil THEN {o.fields}
           ELSE IF hops = 0 THEN {} ELSE inferMapSchema(ns, o.hop, hops - 1)
           : o \in inferOutcomes(ns, n)}

(***************************************************************************)
(* The rescue on a linked pool: a controller whose methods return Object,  *)
(* the service it calls and the DAO the service calls                      *)
(***************************************************************************)
J_RescueController ==
    [Package |-> s_c, Name |-> <<"R","e","s","c","u","e","C","o","n","t","r","o","l","l","e","r">>, Annotations |-> <<s_Controller>>,
     Fields |-> <<[Name |-> <<"s","v","c">>, Type |-> <<"L","o","a","d","S","e","r","v","i","c","e">>]>>,
     Methods |-> <<
        [Name |-> <<"l","o","c","a","l">>, ReturnType |-> s_Object,
         Body |-> <<"M","a","p"," ","m"," ","="," ","n","e","w"," ","H","a","s","h","M","a","p","(",")",";"," ","m",".","p","u","t","(","\"","k","\"",","," ","1",")",";"," ","r","e","t","u","r","n"," ","m",";">>],
        [Name |-> <<"h","o","p">>, ReturnType |-> s_Object,
         Body |-> <<"r","e","t","u","r","n"," ","s","v","c",".","f","e","t","c","h","(",")",";">>],
        [Name |-> <<"b","l","i","n","d">>, ReturnType |-> s_Object,
         Body |-> <<"M","a","p"," ","m"," ","="," ","n","e","w"," ","H","a","s","h","M","a","p","(",")",";"," ","m",".","p","u","t","(","\"","k","\"",","," ","1",")",";"," ","r","e","t","u","r","n"," ","w","r","a","p","(",")",";">>],
        [Name |-> <<"t","r","a","c","e">>, ReturnType |-> s_Object,
         Body |-> <<"S","t","r","i","n","g"," ","s"," ","="," ","n","u","l","l",";"," ","r","e","t","u","r","n"," ","s",";">>],
        [Name |-> <<"r","e","s","c","u","e">>, ReturnType |-> s_Object,
         Body |-> <<"M","a","p"," ","m"," ","="," ","n","e","w"," ","H","a","s","h","M","a","p","(",")",";"," ","m",".","p","u","t","(","\"","k","\"",","," ","1",")",";"," ","r","e","t","u","r","n"," ","s","v","c",".","l","o","a","d","(",")",";">>],
        [Name |-> <<"c","h","a","i","n">>, ReturnType |-> s_Object,
         Body |-> <<"r","e","t","u","r","n"," ","s","v","c",".","r","e","l","a","y","(",")",";">>]>>]

J_LoadService ==
    [Package |-> s_c, Name |-> <<"L","o","a","d","S","e","r","v","i","c","e">>, Annotations |-> <<s_Service>>,
     Fields |-> <<[Name |-> <<"d","a","o">>, Type |-> <<"L","o","a","d","D","a","o">>]>>,
     Methods |-> <<
        [Name |-> <<"f","e","t","c","h">>, ReturnType |-> s_Object,
         Body |-> <<"M","a","p"," ","r"," ","="," ","n","e","w"," ","H","a","s","h","M","a","p","(",")",";"," ","r",".","p","u","t","(","\"","i","d","\"",","," ","1",")",";"," ","r","e","t","u","r","n"," ","r",";">>],
        [Name |-> <<"l","o","a","d">>, ReturnType |-> s_Object,
         Body |-> <<"r","e","t","u","r","n"," ","n","u","l","l",";">>],
        [Name |-> <<"r","e","l","a","y">>, ReturnType |-> s_Object,
         Body |-> <<"r","e","t","u","r","n"," ","d","a","o",".","g","e","t","(",")",";">>]>>]

J_LoadDao ==
    [Package |-> s_c, Name |-> <<"L","o","a","d","D","a","o">>, Annotations |-> <<s_Repository>>,
     Fields |-> <<>>,
     Methods |-> <<
        [Name |-> <<"g","e","t">>, ReturnType |-> s_Object,
         Body |-> <<"M","a","p"," ","d"," ","="," ","n","e","w"," ","H","a","s","h","M","a","p","(",")",";"," ","d",".","p","u","t","(","\"","v","\"",","," ","1",")",";"," ","r","e","t","u","r","n"," ","d",";">>]>>]

RescueClasses == <<J_RescueController, J_LoadService, J_LoadDao>>

\* the three classes were registered
InferInit ==
        LET p == poolOf([nodes |-> <<>>, ClassMap |-> EmptyMap, MethodMap |-> EmptyMap,
                         MethodBodyMap |-> EmptyMap, FieldTypeMap |-> EmptyMap], RescueClasses, 1)
        IN /\ nodes = p.nodes
           /\ ClassMap = p.ClassMap
           /\ MethodMap = p.MethodMap
           /\ MethodBodyMap = p.MethodBodyMap
           /\ FieldTypeMap = p.FieldTypeMap
           /\ SQLMap = EmptyMap
           /\ pc = "load"
           /\ loaded = SeqRange(RescueClasses)
           /\ todo = {}
           /\ linkCount = 0
           /\ lastCall = <<>>
           /\ arg = <<>>
           /\ out = <<>>
           /\ op = "none"
           /\ stack = <<>>
           /\ visited = {}
           /\ ret = <<>>
           /\ typeArg = <<>>
           /\ fields1 = <<>>
           /\ fields2 = <<>>
           /\ spc = "idle"

\* extractResponse calls inferMapSchema(method, ...) for a method of a controller whose
\* return type is dynamic, after Link
InferMapSchema ==
    /\ pc = "linked"
    /\ \E c \in Range(ClassMap) : \E i \in 1..Len(nodes[c].Children) :
          LET method == nodes[c].Children[i]
          IN /\ nodes[c].Type = "CONTROLLER"
             /\ nodes[method].Type = "CONTROLLER"
             /\ isDynamicType(nodes[method].ReturnDetail)
             /\ arg' = method
             /\ out' \in inferMapSchema(nodes, method, MaxHops)
    /\ op' = "inferMapSchema"
    /\ UNCHANGED <<poolVars, runVars, lastCall, schemaVars>>

InferNext ==
    \/ LinkStart
    \/ LinkJavaMethod
    \/ LinkJavaDone
    \/ LinkMapperMethod
    \/ LinkDone
    \/ InferMapSchema

InferSpec == InferInit /\ [][InferNext]_vars

(***************************************************************************)
(* Endpoint extraction (ExtractEndpoints) and the renderers it feeds       *)
(***************************************************************************)
ToUpper(s) ==
    [i \in 1..Len(s) |->
        IF s[i] \in LowerSet THEN UpperChars[CHOOSE k \in 1..26 : LowerChars[k] = s[i]] ELSE s[i]]

\* strings.Fields: the maximal runs of non-space characters
RECURSIVE Fields(_)
Fields(s) ==
    LET t == TrimSpace(s)
        ends == {i \in 1..Len(t) : t[i] \in SpaceSet}
        cut == IF ends = {} THEN Len(t) + 1 ELSE CHOOSE i \in ends : \A j \in ends : i <= j
    IN IF t = <<>> THEN <<>>
       ELSE <<SubSeq(t, 1, cut - 1)>> \o Fields(SubSeq(t, cut, Len(t)))

isJavaKeyword(name) ==
    ToLower(name) \in {<<"i","f">>, <<"e","l","s","e">>, <<"f","o","r">>, <<"w","h","i","l","e">>, <<"d","o">>, <<"s","w","i","t","c","h">>, <<"c","a","s","e">>, <<"d","e","f","a","u","l","t">>, <<"r","e","t","u","r","n">>, <<"t","h","r","o","w">>, <<"t","h","r","o","w","s">>, <<"n","e","w">>, <<"t","r","y">>, <<"c","a","t","c","h">>, <<"f","i","n","a","l","l","y">>, <<"s","y","n","c","h","r","o","n","i","z","e","d">>, <<"a","s","s","e","r","t">>, <<"b","r","e","a","k">>, <<"c","o","n","t","i","n","u","e">>, <<"g","o","t","o">>, <<"i","n","s","t","a","n","c","e","o","f">>, <<"t","h","i","s">>, <<"s","u","p","e","r">>, <<"n","u","l","l">>, <<"t","r","u","e">>, <<"f","a","l","s","e">>, <<"v","o","i","d">>, <<"c","l","a","s","s">>, <<"i","n","t","e","r","f","a","c","e">>, <<"e","n","u","m">>, <<"e","x","t","e","n","d","s">>, <<"i","m","p","l","e","m","e","n","t","s">>, <<"i","m","p","o","r","t">>, <<"p","a","c","k","a","g","e">>, <<"p","r","i","v","a","t","e">>, <<"p","r","o","t","e","c","t","e","d">>, <<"p","u","b","l","i","c">>, <<"s","t","a","t","i","c">>, <<"f","i","n","a","l">>, <<"a","b","s","t","r","a","c","t">>, <<"n","a","t","i","v","e">>, <<"s","t","r","i","c","t","f","p">>, <<"t","r","a","n","s","i","e","n","t">>, <<"v","o","l","a","t","i","l","e">>, <<"m","o","d","e","l","a","n","d","v","i","e","w">>, <<"m","o","d","e","l">>, <<"v","i","e","w">>, <<"r","e","d","i","r","e","c","t","v","i","e","w">>}

\* parseParameter: <<>> when the text has fewer than two fields, else the ParamDef
parseParameter(paramStr) ==
    LET parsed(parts) ==
      LET
        anns == {i \in 1..Len(parts) : HasPrefix(parts[i], <<"@">>)}
        lastAnn == IF anns = {} THEN 0 ELSE CHOOSE i \in anns : \A j \in anns : j <= i
        annotation == IF anns = {} THEN <<>> ELSE ToLower(parts[lastAnn])
        remaining == SubSeq(parts, lastAnn + 1, Len(parts))
        type == IF Len(remaining) >= 1 THEN remaining[1] ELSE <<>>
        name == IF Len(remaining) >= 2 THEN remaining[2]
                ELSE IF Len(remaining) = 1 THEN <<"p","a","r","a","m">> ELSE <<>>
        located == {i \in anns : \E w \in {<<"r","e","q","u","e","s","t","b","o","d","y">>, <<"p","a","t","h","v","a","r","i","a","b","l","e">>, <<"r","e","q","u","e","s","t","p","a","r","a","m">>, <<"r","e","q","u","e","s","t","h","e","a","d","e","r">>} :
                                     Contains(ToLower(parts[i]), w)}
        where(a) == IF Contains(a, <<"r","e","q","u","e","s","t","b","o","d","y">>) THEN <<"B","o","d","y">>
                    ELSE IF Contains(a, <<"p","a","t","h","v","a","r","i","a","b","l","e">>) THEN <<"P","a","t","h">>
                    ELSE IF Contains(a, <<"r","e","q","u","e","s","t","p","a","r","a","m">>) THEN <<"Q","u","e","r","y">>
                    ELSE <<"H","e","a","d","e","r">>
        in(complex) ==
            IF located # {}
            THEN where(ToLower(parts[CHOOSE i \in located : \A j \in located : j <= i]))
            ELSE IF complex THEN <<"B","o","d","y">> ELSE <<"Q","u","e","r","y">>
        paramDef(paramType, complex) ==
            [Name |-> name, Type |-> paramType, In |-> in(complex),
             Fields |-> IF complex THEN deduplicateFields(resolveSchemaNoClass(paramType, 1))
                        ELSE <<>>]
      IN IF Len(parts) < 2 THEN <<>> ELSE <<paramDef(type, isComplexType(type))>>
    IN parsed(Fields(paramStr))

\* extractParameters: the text is split at every comma
extractParameters(params) ==
    LET paramParts == Split(params, ",")
        parse[i \in 0..Len(paramParts)] ==
            IF i = 0 THEN <<>>
            ELSE parse[i - 1] \o (IF TrimSpace(paramParts[i]) = <<>> THEN <<>>
                                  ELSE parseParameter(TrimSpace(paramParts[i])))
    IN IF params = <<>> THEN <<>> ELSE parse[Len(paramParts)]

\* inferReturnType: the type the body constructs, <<>> when none is found
inferReturnType(ns, n) ==
    LET body == ns[n].Body
        typeChars == WordSet \cup SpaceSet \cup {"<", ">", ",", "."}
        call == Opt(<<Lit(<<"(">>), Greedy({"\n"}, TRUE, 0, FALSE), Lit(<<")">>)>>)
        reNew == <<Lit(<<"r","e","t","u","r","n">>), Sp(1), Lit(<<"n","e","w">>), Sp(1), Greedy(typeChars, FALSE, 1, TRUE),
                   Sp(0), Lit(<<"(">>)>>
        reWrapper == <<Lit(<<"n","e","w">>), Sp(1), Greedy(WordSet \cup {"<", ">"}, FALSE, 1, FALSE), call,
                       Lit(<<"(">>), Sp(0), Lit(<<"n","e","w">>), Sp(1), Greedy(typeChars, FALSE, 1, TRUE),
                       Sp(0), Lit(<<"(">>)>>
        reBuilder == <<Lit(<<"r","e","t","u","r","n">>), Sp(1), Greedy(typeChars, FALSE, 1, TRUE), Lit(<<".","b","u","i","l","d","e","r">>),
                       Sp(0), Lit(<<"(">>)>>
        reReturnVar == <<Lit(<<"r","e","t","u","r","n">>), Sp(1), Lit(<<"n","e","w">>), Sp(1),
                         Greedy(WordSet \cup {"<", ">"}, FALSE, 1, FALSE), call, Sp(0), Lit(<<"(">>),
                         Sp(0), Word(TRUE), Sp(0), Alt(<<<<",">>, <<")">>>>)>>
        reDecl(varName) ==
            <<StartOr({";", "{", "}"}), Sp(0), One(UpperSet, FALSE, TRUE),
              Greedy(WordSet \cup {"<", ">"}, FALSE, 0, TRUE), Sp(1), Lit(varName),
              Sp(0), Lit(<<"=">>)>>
        declOf(var) ==
            IF var = <<>> \/ var[1].caps[1] \in {<<"n","u","l","l">>, <<"t","r","u","e">>, <<"f","a","l","s","e">>} THEN <<>>
            ELSE FindSubmatch(body, reDecl(var[1].caps[1]), 1)
        baseName == Slice(ns[n].Method, 3, Len(ns[n].Method))
        candidates == <<baseName \o <<"R","e","s","p","o","n","s","e","D","t","o">>, baseName \o <<"R","e","s","p","o","n","s","e">>, baseName \o <<"D","t","o">>>>
        named == {i \in 1..3 : \E key \in DOMAIN ClassMap :
                                  HasSuffix(key, Dot \o candidates[i]) \/ key = candidates[i]}
        inferred(direct, decl) ==
            IF direct # {}
            THEN FindSubmatch(body, <<reNew, reWrapper, reBuilder>>[CHOOSE i \in direct : \A j \in direct : i <= j], 1)[1].caps[1]
            ELSE IF decl # <<>> THEN decl[1].caps[1] \o decl[1].caps[2]
            ELSE IF HasPrefix(ns[n].Method, <<"g","e","t">>) /\ Len(baseName) > 0 /\ named # {}
            THEN candidates[CHOOSE i \in named : \A j \in named : i <= j]
            ELSE <<>>
    IN IF body = <<>> THEN <<>>
       ELSE inferred({i \in 1..3 : FindSubmatch(body, <<reNew, reWrapper, reBuilder>>[i], 1) # <<>>},
                     declOf(FindSubmatch(body, reReturnVar, 1)))

\* extractResponse: the set of responses it can return, the Type and the Fields of each
extractResponse(ns, n) ==
    LET declared == IF ns[n].ReturnDetail = <<>> THEN <<"v","o","i","d">> ELSE ns[n].ReturnDetail
        wrapper(t) == isDynamicType(t) \/ Contains(t, <<"M","a","p">>) \/ Contains(t, <<"R","e","s","p","o","n","s","e">>)
        typeOf(inferred) ==
            IF (wrapper(declared) \/ Contains(declared, <<"?">>)) /\ inferred # <<>>
            THEN inferred ELSE declared
        virtual(type) ==
            IF (wrapper(declared) \/ Contains(declared, <<"?">>)) /\ wrapper(type)
            THEN inferMapSchema(ns, n, MaxHops) ELSE {<<>>}
        responses(type) ==
            {[Type |-> type,
              Fields |-> IF isComplexType(type) /\ Len(fields) = 0
                         THEN deduplicateFields(resolveSchemaNoClass(type, 1)) ELSE fields]
             : fields \in virtual(type)}
    IN responses(typeOf(inferReturnType(ns, n)))

extractHTTPMethod(method) ==
    LET methodName == ToLower(method.Method)
        starts(ps) == \E p \in ps : HasPrefix(methodName, p)
    IN IF method.Annotation # <<>> THEN ToUpper(method.Annotation)
       ELSE IF starts({<<"g","e","t">>, <<"l","i","s","t">>, <<"f","i","n","d">>}) THEN <<"G","E","T">>
       ELSE IF starts({<<"c","r","e","a","t","e">>, <<"a","d","d">>, <<"i","n","s","e","r","t">>}) THEN <<"P","O","S","T">>
       ELSE IF starts({<<"u","p","d","a","t","e">>, <<"m","o","d","i","f","y">>}) THEN <<"P","U","T">>
       ELSE IF starts({<<"d","e","l","e","t","e">>, <<"r","e","m","o","v","e">>}) THEN <<"D","E","L","E","T","E">>
       ELSE <<"G","E","T">>

\* the set of EndpointDef values extractEndpointFromMethod can return
extractEndpointFromMethod(ns, controller, method) ==
    {[Method |-> extractHTTPMethod(ns[method]),
      Path |-> IF ns[method].URL = <<>> THEN <<"/">> \o ns[method].Method ELSE ns[method].URL,
      ControllerName |-> LET parts == Split(ns[controller].ID, ".") IN parts[Len(parts)],
      MethodName |-> ns[method].Method,
      Params |-> extractParameters(ns[method].Params),
      Response |-> response]
     : response \in extractResponse(ns, method)}

isViewEndpoint(endpoint, method) ==
    \/ \E viewType \in {<<"M","o","d","e","l","A","n","d","V","i","e","w">>, <<"M","o","d","e","l">>, <<"V","i","e","w">>, <<"R","e","d","i","r","e","c","t","V","i","e","w">>, <<"M","o","d","e","l","M","a","p">>} :
          Contains(endpoint.Response.Type, viewType)
    \/ endpoint.Response.Type = <<"S","t","r","i","n","g">> /\ ~Contains(method.Annotation, <<"R","e","s","p","o","n","s","e","B","o","d","y">>)

\* the methods ExtractEndpoints visits, as <<controller, method>>, for the Nodes of tree in
\* their order
RECURSIVE endpointMethods(_, _, _)
endpointMethods(ns, tree, i) ==
    IF i > Len(tree) THEN <<>>
    ELSE (IF ns[tree[i]].Type # "CONTROLLER" THEN <<>>
          ELSE LET kept == SelectSeq(ns[tree[i]].Children,
                               LAMBDA m : /\ ns[m].Type = "CONTROLLER"
                                          /\ ~isJavaKeyword(ns[m].Method)
                                          /\ ~HasPrefix(ns[m].Method, <<"n","e","w"," ">>)
                                          /\ ns[m].Method # <<"n","e","w">>)
               IN [j \in 1..Len(kept) |-> <<tree[i], kept[j]>>])
         \o endpointMethods(ns, tree, i + 1)

\* the set of lists ExtractEndpoints(tree, ...) can return
RECURSIVE appendEndpoints(_, _, _)
appendEndpoints(ns, methods, i) ==
    IF i > Len(methods) THEN {<<>>}
    ELSE {(IF isViewEndpoint(endpoint, ns[methods[i][2]]) THEN <<>> ELSE <<endpoint>>) \o rest
          : endpoint \in extractEndpointFromMethod(ns, methods[i][1], methods[i][2]),
            rest \in appendEndpoints(ns, methods, i + 1)}

ExtractEndpoints(ns, tree) == appendEndpoints(ns, endpointMethods(ns, tree, 1), 1)

\* the printable ASCII characters, without the backquote, in the order of their codes
Ascii ==
    <<" ", "!", "\"", "#", "$", "%", "&", "'", "(", ")", "*", "+", ",", "-", ".", "/",
      "0", "1", "2", "3", "4", "5", "6", "7", "8", "9", ":", ";", "<", "=", ">", "?", "@">>
    \o UpperChars \o <<"[", "\\", "]", "^", "_">> \o LowerChars \o <<"{", "|", "}", "~">>

\* a < b for Go strings
StringLess(a, b) ==
    LET code(c) == CHOOSE k \in 1..Len(Ascii) : Ascii[k] = c
        diff == {i \in 1..Len(a) : i > Len(b) \/ a[i] # b[i]}
        d == CHOOSE i \in diff : \A j \in diff : i <= j
    IN IF diff = {} THEN Len(a) < Len(b)
       ELSE d <= Len(b) /\ code(a[d]) < code(b[d])

\* the orders sort.Slice can leave the endpoints in when it sorts them by path
sortByPath(endpoints) ==
    {[i \in 1..Len(endpoints) |-> endpoints[p[i]]] : p \in
        {q \in Perms(1..Len(endpoints)) :
            \A i \in 1..(Len(endpoints) - 1) : ~StringLess(endpoints[q[i + 1]].Path, endpoints[q[i]].Path)}}

\* parseMethodParams of the Java parser: the parameter texts, split at the commas outside
\* generic brackets
parseMethodParams(paramsStr) ==
    LET s == TrimSpace(paramsStr)
        depth[i \in 0..Len(s)] ==
            IF i = 0 THEN 0
            ELSE IF s[i] = "<" THEN depth[i - 1] + 1
            ELSE IF s[i] = ">" THEN depth[i - 1] - 1
            ELSE depth[i - 1]
        cuts == {i \in 1..Len(s) : s[i] = "," /\ depth[i] = 0}
        piece(a) == LET later == {c \in cuts : c >= a}
                        b == IF later = {} THEN Len(s) + 1 ELSE CHOOSE c \in later : \A e \in later : c <= e
                    IN SubSeq(s, a, b - 1)
        starts == {1} \cup {c + 1 : c \in cuts}
        order == CHOOSE q \in Perms(starts) : \A i \in 1..(Cardinality(starts) - 1) : q[i] < q[i + 1]
        all == [i \in 1..Cardinality(starts) |-> piece(order[i])]
    IN IF s = <<>> THEN <<>>
       ELSE [i \in 1..Len(all) |->
                IF i < Len(all) THEN TrimSpace(all[i]) ELSE all[i]]

(***************************************************************************)
(* The renderers on a linked pool: two controllers and a service           *)
(***************************************************************************)
J_PageController ==
    [Package |-> s_c, Name |-> <<"P","a","g","e","C","o","n","t","r","o","l","l","e","r">>, Annotations |-> <<s_Controller>>, Fields |-> <<>>,
     Methods |-> <<
        [Name |-> <<"p","a","g","e">>, ReturnType |-> s_String, Params |-> <<>>, Body |-> <<"r","e","t","u","r","n"," ","\"","p","a","g","e","\"",";">>,
         Annotations |-> <<[Name |-> <<"G","e","t","M","a","p","p","i","n","g">>, Value |-> <<"/","b","/","p","a","g","e">>]>>],
        [Name |-> <<"t","e","x","t">>, ReturnType |-> s_String, Params |-> <<"S","t","r","i","n","g"," ","i","d">>, Body |-> <<"r","e","t","u","r","n"," ","\"","t","e","x","t","\"",";">>,
         Annotations |-> <<[Name |-> <<"G","e","t","M","a","p","p","i","n","g">>, Value |-> <<"/","b","/","t","e","x","t">>], [Name |-> <<"R","e","s","p","o","n","s","e","B","o","d","y">>]>>],
        [Name |-> <<"h","o","m","e">>, ReturnType |-> s_ModelAndView, Params |-> <<>>,
         Body |-> <<"r","e","t","u","r","n"," ","n","e","w"," ","M","o","d","e","l","A","n","d","V","i","e","w","(","\"","h","o","m","e","\"",")",";">>,
         Annotations |-> <<[Name |-> <<"G","e","t","M","a","p","p","i","n","g">>, Value |-> <<"/","b","/","h","o","m","e">>]>>],
        [Name |-> <<"i","t","e","m">>, ReturnType |-> s_User, Params |-> <<"@","R","e","q","u","e","s","t","B","o","d","y"," ","M","a","p","<","S","t","r","i","n","g",","," ","O","b","j","e","c","t",">"," ","m">>,
         Body |-> <<"r","e","t","u","r","n"," ","n","u","l","l",";">>,
         Annotations |-> <<[Name |-> <<"P","o","s","t","M","a","p","p","i","n","g">>, Value |-> <<"/","a","/","i","t","e","m">>]>>]>>]

J_ApiController ==
    [Package |-> s_c, Name |-> <<"A","p","i","C","o","n","t","r","o","l","l","e","r">>, Annotations |-> <<s_RestController>>, Fields |-> <<>>,
     Methods |-> <<
        [Name |-> <<"l","i","s","t">>, ReturnType |-> <<"L","i","s","t","<","U","s","e","r",">">>, Params |-> <<"S","t","r","i","n","g"," ","i","d",","," ","i","n","t"," ","n">>,
         Body |-> <<"r","e","t","u","r","n"," ","n","u","l","l",";">>,
         Annotations |-> <<[Name |-> <<"G","e","t","M","a","p","p","i","n","g">>, Value |-> <<"/","a","/","l","i","s","t">>]>>],
        [Name |-> <<"s","a","v","e">>, ReturnType |-> s_void, Params |-> <<"M","a","p","<","S","t","r","i","n","g",","," ","O","b","j","e","c","t",">"," ","m">>,
         Body |-> <<>>,
         Annotations |-> <<[Name |-> <<"P","o","s","t","M","a","p","p","i","n","g">>, Value |-> <<"/","c","/","s","a","v","e">>]>>]>>]

J_TextService ==
    [Package |-> s_c, Name |-> <<"T","e","x","t","S","e","r","v","i","c","e">>, Annotations |-> <<s_Service>>, Fields |-> <<>>,
     Methods |-> <<[Name |-> <<"f","o","r","m","a","t">>, ReturnType |-> s_String, Body |-> <<"r","e","t","u","r","n"," ","\"","\"",";">>]>>]

EndpointClasses == <<J_PageController, J_ApiController, J_TextService>>

\* the three classes were registered
ExtractInit ==
    LET p == poolOf([nodes |-> <<>>, ClassMap |-> EmptyMap, MethodMap |-> EmptyMap,
                     MethodBodyMap |-> EmptyMap, FieldTypeMap |-> EmptyMap], EndpointClasses, 1)
    IN /\ nodes = p.nodes
       /\ ClassMap = p.ClassMap
       /\ MethodMap = p.MethodMap
       /\ MethodBodyMap = p.MethodBodyMap
       /\ FieldTypeMap = p.FieldTypeMap
       /\ SQLMap = EmptyMap
       /\ pc = "load"
       /\ loaded = SeqRange(EndpointClasses)
       /\ todo = {}
       /\ linkCount = 0
       /\ lastCall = <<>>
       /\ arg = <<>>
       /\ out = <<>>
       /\ op = "none"
       /\ stack = <<>>
       /\ visited = {}
       /\ ret = <<>>
       /\ typeArg = <<>>
       /\ fields1 = <<>>
       /\ fields2 = <<>>
       /\ spc = "idle"

\* an extraction that orders the methods of every controller by name in place before it
\* walks them
ExportSortingChildren(emitter) ==
    LET sorted(children) ==
            CHOOSE p \in Perms(SeqRange(children)) :
                \A i \in 1..(Len(p) - 1) : ~StringLess(nodes[p[i + 1]].Method, nodes[p[i]].Method)
        ordered == [n \in DOMAIN nodes |->
                       IF n \in Range(ClassMap) /\ nodes[n].Type = "CONTROLLER"
                       THEN [nodes[n] EXCEPT !.Children = sorted(@)] ELSE nodes[n]]
    IN /\ pc = "linked"
       /\ \E tree \in Perms(Range(ClassMap)) : \E endpoints \in ExtractEndpoints(ordered, tree) :
             /\ arg' = tree
             /\ out' \in IF emitter = "openapi" THEN {endpoints} ELSE sortByPath(endpoints)
       /\ op' = emitter
       /\ nodes' = ordered
       /\ UNCHANGED <<ClassMap, MethodMap, MethodBodyMap, SQLMap, FieldTypeMap, runVars,
                      lastCall, schemaVars>>

\* An emitter calls ExtractEndpoints on the tree GetAllNodes built, the class Nodes in the
\* order of a range loop over ClassMap; out is the list its rendering loop runs over.
\* The HTML and the Word emitter sort the list by path, the OpenAPI emitter does not.
Export(emitter) ==
    /\ pc = "linked"
    /\ \E tree \in Perms(Range(ClassMap)) : \E endpoints \in ExtractEndpoints(nodes, tree) :
          /\ arg' = tree
          /\ out' \in IF emitter = "openapi" THEN {endpoints} ELSE sortByPath(endpoints)
    /\ op' = emitter
    /\ UNCHANGED <<poolVars, runVars, lastCall, schemaVars>>

HTMLExport == Export("html")
WordExport == Export("word")
OpenAPIExport == Export("openapi")

ExtractNext ==
    \/ LinkStart
    \/ LinkJavaMethod
    \/ LinkJavaDone
    \/ LinkMapperMethod
    \/ LinkDone
    \/ HTMLExport
    \/ WordExport
    \/ OpenAPIExport

ExtractSpec == ExtractInit /\ [][ExtractNext]_vars

(***************************************************************************)
(* Link on a pool with recursive calls: a method that calls itself through *)
(* a field of its own class type, and two classes that call each other     *)
(***************************************************************************)
J_PingService ==
    [Package |-> s_c, Name |-> <<"P","i","n","g","S","e","r","v","i","c","e">>, Annotations |-> <<s_Service>>,
     Fields |-> <<[Name |-> <<"p","e","e","r">>, Type |-> <<"P","o","n","g","S","e","r","v","i","c","e">>],
                  [Name |-> <<"o","w","n">>, Type |-> <<"P","i","n","g","S","e","r","v","i","c","e">>]>>,
     Methods |-> <<
        [Name |-> <<"p","i","n","g">>, ReturnType |-> s_void, Body |-> <<"p","e","e","r",".","p","o","n","g","(",")",";">>],
        [Name |-> <<"r","e","t","r","y">>, ReturnType |-> s_void, Body |-> <<"o","w","n",".","r","e","t","r","y","(",")",";">>]>>]

J_PongService ==
    [Package |-> s_c, Name |-> <<"P","o","n","g","S","e","r","v","i","c","e">>, Annotations |-> <<s_Service>>,
     Fields |-> <<[Name |-> <<"p","e","e","r">>, Type |-> <<"P","i","n","g","S","e","r","v","i","c","e">>]>>,
     Methods |-> <<
        [Name |-> <<"p","o","n","g">>, ReturnType |-> s_void, Body |-> <<"p","e","e","r",".","p","i","n","g","(",")",";">>]>>]

J_GameController ==
    [Package |-> s_c, Name |-> <<"G","a","m","e","C","o","n","t","r","o","l","l","e","r">>, Annotations |-> <<s_Controller>>,
     Fields |-> <<[Name |-> <<"g","a","m","e">>, Type |-> <<"P","i","n","g","S","e","r","v","i","c","e">>]>>,
     Methods |-> <<
        [Name |-> <<"p","l","a","y">>, ReturnType |-> s_void, Body |-> <<"g","a","m","e",".","p","i","n","g","(",")",";">>]>>]

CycleClasses == {J_PingService, J_PongService, J_GameController}

CycleNext ==
    \/ \E javaClass \in CycleClasses : AddJavaClass(javaClass)
    \/ LinkStart
    \/ LinkJavaMethod
    \/ LinkJavaDone
    \/ LinkMapperMethod
    \/ LinkDone

CycleSpec == Init /\ [][CycleNext]_vars

(***************************************************************************)
(* The brace matcher of the Java parser (findClosingBrace) and the method  *)
(* body extractMethods cuts out with it                                    *)
(***************************************************************************)
\* the for loop of findClosingBrace from index i on; in is the literal or comment the scan is
\* inside of (inString, inChar, inLineComment, inBlockComment), or "" for none of them
RECURSIVE scanBraces(_, _, _, _, _)
scanBraces(content, i, depth, in, escaped) ==
    IF i >= Len(content) THEN Len(content)
    ELSE LET char == content[i + 1]
             next == IF i + 1 < Len(content) THEN content[i + 2] ELSE ""
         IN CASE in = "inLineComment" ->
                   scanBraces(content, i + 1, depth, IF char = "\n" THEN "" ELSE in, escaped)
              [] in = "inBlockComment" ->
                   IF char = "*" /\ next = "/"
                   THEN scanBraces(content, i + 2, depth, "", escaped)
                   ELSE scanBraces(content, i + 1, depth, in, escaped)
              [] in \in {"inString", "inChar"} ->
                   IF escaped THEN scanBraces(content, i + 1, depth, in, FALSE)
                   ELSE IF char = "\\" THEN scanBraces(content, i + 1, depth, in, TRUE)
                   ELSE IF char = (IF in = "inString" THEN "\"" ELSE "'")
                        THEN scanBraces(content, i + 1, depth, "", escaped)
                        ELSE scanBraces(content, i + 1, depth, in, escaped)
              [] OTHER ->
                   IF char = "/" /\ next = "/"
                   THEN scanBraces(content, i + 2, depth, "inLineComment", escaped)
                   ELSE IF char = "/" /\ next = "*"
                   THEN scanBraces(content, i + 2, depth, "inBlockComment", escaped)
                   ELSE IF char = "\"" THEN scanBraces(content, i + 1, depth, "inString", FALSE)
                   ELSE IF char = "'" THEN scanBraces(content, i + 1, depth, "inChar", FALSE)
                   ELSE IF char = "{" THEN scanBraces(content, i + 1, depth + 1, in, escaped)
                   ELSE IF char = "}"
                        THEN IF depth - 1 = 0 THEN i + 1
                             ELSE scanBraces(content, i + 1, depth - 1, in, escaped)
                   ELSE scanBraces(content, i + 1, depth, in, escaped)

\* a matcher that counts every brace, also those inside literals and comments
findClosingBraceCountingAll(content, start) ==
    LET closes == {i \in start..(Len(content) - 1) :
                      /\ content[i + 1] = "}"
                      /\ Cardinality({j \in start..i : content[j + 1] = "}"})
                           = 1 + Cardinality({j \in start..i : content[j + 1] = "{"})}
    IN IF closes = {} THEN Len(content)
       ELSE 1 + CHOOSE i \in closes : \A j \in closes : i <= j

findClosingBrace(content, start) == scanBraces(content, start, 1, "", FALSE)

\* the body extractMethods takes for a method whose declaration ends with the opening brace
\* just before bodyStart
methodBodyAt(content, bodyStart) ==
    LET bodyEnd == findClosingBrace(content, bodyStart)
    IN [bodyEnd |-> bodyEnd,
        methodBody |-> IF bodyEnd > bodyStart /\ bodyEnd <= Len(content)
                       THEN Slice(content, bodyStart, bodyEnd - 1)
                       ELSE <<>>]

\* the pieces the texts of the check are made of: braces, code, string and character literals
\* (with escapes) and comments, the literals and comments holding braces and quotes
BraceTokens == {<<"{">>, <<"}">>, <<"x",";">>, <<"\"","}","\"">>, <<"\"","\\","\"","{","\"">>, <<"\"","\\","\\","\"">>, <<"'","{","'">>, <<"'","\\","'","'">>, <<"'","\"","'">>, <<"/","/","}","\n">>, <<"/","*","{","*","/">>, <<"/","*","\"","*","/">>, <<"\"","/","/","\"">>}

\* number of pieces after the first opening brace
MaxTokens == 3

RECURSIVE TokenSeqs(_)
TokenSeqs(n) ==
    IF n = 0 THEN {<<>>}
    ELSE TokenSeqs(n - 1) \cup {Append(ts, t) : ts \in TokenSeqs(n - 1), t \in BraceTokens}

RECURSIVE tokensText(_, _, _)
\* the text of the pieces a..b
tokensText(tokens, a, b) ==
    IF a > b THEN <<>> ELSE tokens[a] \o tokensText(tokens, a + 1, b)

\* the text: an opening brace and the pieces
braceContent(tokens) == <<"{">> \o tokensText(tokens, 1, Len(tokens))

\* the index just after the opening brace that is piece from (0: the first brace of the text)
braceStart(tokens, from) == 1 + Len(tokensText(tokens, 1, from))

\* a text and a position just after one of its opening braces
BraceInit ==
    /\ nodes = <<>>
    /\ ClassMap = EmptyMap
    /\ MethodMap = EmptyMap
    /\ MethodBodyMap = EmptyMap
    /\ SQLMap = EmptyMap
    /\ FieldTypeMap = EmptyMap
    /\ pc = "parse"
    /\ loaded = {}
    /\ todo = {}
    /\ linkCount = 0
    /\ lastCall = <<>>
    /\ \E tokens \in TokenSeqs(MaxTokens) :
         \E from \in {0} \cup {k \in 1..Len(tokens) : tokens[k] = <<"{">>} :
            arg = [tokens |-> tokens, from |-> from]
    /\ out = <<>>
    /\ op = "none"
    /\ stack = <<>>
    /\ visited = {}
    /\ ret = <<>>
    /\ typeArg = <<>>
    /\ fields1 = <<>>
    /\ fields2 = <<>>
    /\ spc = "idle"

\* extractMethods meets the opening brace of a method and cuts the body out
ExtractMethodBody ==
    /\ pc = "parse"
    /\ op = "none"
    /\ out' = methodBodyAt(braceContent(arg.tokens), braceStart(arg.tokens, arg.from))
    /\ op' = "extractMethods"
    /\ UNCHANGED <<poolVars, pc, loaded, todo, linkCount, lastCall, arg, schemaVars>>

BraceNext == ExtractMethodBody

BraceSpec == BraceInit /\ [][BraceNext]_vars

(***************************************************************************)
(* The reporting phase of runAnalysis: the exporters of the requested      *)
(* formats are run one after the other                                     *)
(***************************************************************************)
\* the loop of GetExporters from formats[i] on: the exporters appended, by their kind
RECURSIVE getExporters(_, _, _)
getExporters(formats, i, seen) ==
    IF i > Len(formats) THEN <<>>
    ELSE LET fmtStr == ToLower(TrimSpace(formats[i]))
             exporter == IF fmtStr \in {<<"e","x","c","e","l">>, <<"x","l","s","x">>} THEN <<"excel">>
                         ELSE IF fmtStr = <<"h","t","m","l">> THEN <<"html">>
                         ELSE IF fmtStr \in {<<"w","o","r","d">>, <<"d","o","c","x">>} THEN <<"word">>
                         ELSE IF fmtStr \in {<<"o","p","e","n","a","p","i">>, <<"s","w","a","g","g","e","r">>, <<"j","s","o","n">>} THEN <<"openapi">>
                         ELSE <<>>
         IN IF fmtStr \in seen THEN getExporters(formats, i + 1, seen)
            ELSE exporter \o getExporters(formats, i + 1, seen \cup {fmtStr})

GetExporters(formats) == getExporters(formats, 1, {})

\* the format names a -format flag of the check is made of
FormatNames == {<<"e","x","c","e","l">>, <<"x","l","s","x">>, <<"h","t","m","l">>, <<" ","H","T","M","L">>, <<"j","s","o","n">>, <<"p","d","f">>}

\* number of format names in the -format flag
MaxFormats == 3

RECURSIVE FormatFlags(_)
\* the -format flags with up to n comma-separated names
FormatFlags(n) ==
    IF n = 1 THEN FormatNames
    ELSE FormatFlags(n - 1) \cup {f \o <<",">> \o name : f \in FormatFlags(n - 1), name \in FormatNames}

\* runAnalysis enters the reporting phase with some -format flag: arg is the flag, out the
\* exporters built from it, the exporters run so far with what each returned, and the exit code
ReportInit ==
    /\ nodes = <<>>
    /\ ClassMap = EmptyMap
    /\ MethodMap = EmptyMap
    /\ MethodBodyMap = EmptyMap
    /\ SQLMap = EmptyMap
    /\ FieldTypeMap = EmptyMap
    /\ pc = "report"
    /\ loaded = {}
    /\ todo = {}
    /\ linkCount = 0
    /\ lastCall = <<>>
    /\ arg \in FormatFlags(MaxFormats)
    /\ out = [exporters |-> GetExporters(Split(arg, ",")), runs |-> <<>>,
              exportErrors |-> 0, exit |-> -1]
    /\ op = "exporting"
    /\ stack = <<>>
    /\ visited = {}
    /\ ret = <<>>
    /\ typeArg = <<>>
    /\ fields1 = <<>>
    /\ fields2 = <<>>
    /\ spc = "idle"

\* one turn of the loop over exporters: exp.Export returns err
runExporter(err) ==
    /\ pc = "report"
    /\ op = "exporting"
    /\ Len(out.runs) < Len(out.exporters)
    /\ out' = [out EXCEPT !.runs = Append(@, [exporter |-> out.exporters[Len(out.runs) + 1],
                                               err |-> err]),
                          !.exportErrors = IF err THEN @ + 1 ELSE @]
    /\ UNCHANGED <<poolVars, pc, loaded, todo, linkCount, lastCall, arg, op, schemaVars>>

ExportSucceeds == runExporter(FALSE)

ExportFails == runExporter(TRUE)

\* the loop is over: runAnalysis returns an error if exportErrors is not empty, and run
\* returns 1 for an error and 0 otherwise
ReportDone ==
    /\ pc = "report"
    /\ op = "exporting"
    /\ Len(out.runs) = Len(out.exporters)
    /\ out' = [out EXCEPT !.exit = IF out.exportErrors > 0 THEN 1 ELSE 0]
    /\ op' = "done"
    /\ UNCHANGED <<poolVars, pc, loaded, todo, linkCount, lastCall, arg, schemaVars>>

ReportNext ==
    \/ ExportSucceeds
    \/ ExportFails
    \/ ReportDone

ReportSpec == ReportInit /\ [][ReportNext]_vars

(***************************************************************************)
(* The file loop of runAnalysis: every scanned file is read, parsed and    *)
(* registered in the pool                                                  *)
(***************************************************************************)
\* extractPackage of the Java parser (the pool has a function of the same name)
parserExtractPackage(content) ==
    LET packageRegex == <<Lit(<<"p","a","c","k","a","g","e">>), Sp(1), Greedy(WordSet \cup {"."}, FALSE, 1, TRUE),
                          Sp(0), Lit(<<";">>)>>
        matches == FindSubmatch(content, packageRegex, 1)
    IN IF matches # <<>> THEN matches[1].caps[1] ELSE <<>>

extractClassName(content) ==
    LET classRegex == <<Opt(<<Lit(<<"p","u","b","l","i","c">>), Sp(1)>>), Alt(<<<<"c","l","a","s","s">>, <<"i","n","t","e","r","f","a","c","e">>>>), Sp(1),
                        Word(TRUE)>>
        matches == FindSubmatch(content, classRegex, 1)
    IN IF matches # <<>> THEN matches[1].caps[1] ELSE <<>>

\* ParseJavaFile for a text without annotation, access modifier and parenthesis, in which
\* extractClassAnnotations, extractFields and extractMethods find nothing; it returns no error
ParseJavaFile(content) ==
    [Package |-> parserExtractPackage(content), Name |-> extractClassName(content),
     Annotations |-> <<>>, Fields |-> <<>>, Methods |-> <<>>]

\* the files of the project: ReadFile fails for the first; the Java texts declare a class, an
\* interface and two enums; xml.Unmarshal fails for the last
F_Unreadable == [Path |-> <<"L","o","c","k","e","d",".","j","a","v","a">>, readErr |-> TRUE, Content |-> <<>>]
F_Plain == [Path |-> <<"P","l","a","i","n",".","j","a","v","a">>, readErr |-> FALSE, Content |-> <<"p","a","c","k","a","g","e"," ","c",";"," ","c","l","a","s","s"," ","P","l","a","i","n"," ","{"," ","}">>]
F_Marker == [Path |-> <<"M","a","r","k","e","r",".","j","a","v","a">>, readErr |-> FALSE,
             Content |-> <<"p","a","c","k","a","g","e"," ","c",";"," ","p","u","b","l","i","c"," ","i","n","t","e","r","f","a","c","e"," ","M","a","r","k","e","r"," ","{"," ","}">>]
F_Color == [Path |-> <<"C","o","l","o","r",".","j","a","v","a">>, readErr |-> FALSE,
            Content |-> <<"p","a","c","k","a","g","e"," ","c",";"," ","p","u","b","l","i","c"," ","e","n","u","m"," ","C","o","l","o","r"," ","{"," ","R","E","D"," ","}">>]
F_Mapper == [Path |-> <<"U","s","e","r","M","a","p","p","e","r",".","x","m","l">>, readErr |-> FALSE, Mapper |-> X_UserMapper,
             xmlErr |-> FALSE]
F_Broken == [Path |-> <<"B","r","o","k","e","n",".","x","m","l">>, readErr |-> FALSE, xmlErr |-> TRUE]

ProjectFiles == {F_Unreadable, F_Plain, F_Marker, F_Color, F_Mapper, F_Broken}

\* number of files ScanDirectory returns
MaxScan == 3

\* the lists of n different files
RECURSIVE FileLists(_)
FileLists(n) ==
    IF n = 0 THEN {<<>>}
    ELSE FileLists(n - 1) \cup
         {Append(files, f) : files \in FileLists(n - 1), f \in ProjectFiles}

\* ScanDirectory returned the files arg; out counts the files the loop is done with
ScanInit ==
    /\ nodes = <<>>
    /\ ClassMap = EmptyMap
    /\ MethodMap = EmptyMap
    /\ MethodBodyMap = EmptyMap
    /\ SQLMap = EmptyMap
    /\ FieldTypeMap = EmptyMap
    /\ pc = "scan"
    /\ loaded = {}
    /\ todo = {}
    /\ linkCount = 0
    /\ lastCall = <<>>
    /\ arg \in {files \in FileLists(MaxScan) :
                  \A i, j \in 1..Len(files) : i # j => files[i] # files[j]}
    /\ out = 0
    /\ op = "scanning"
    /\ stack = <<>>
    /\ visited = {}
    /\ ret = <<>>
    /\ typeArg = <<>>
    /\ fields1 = <<>>
    /\ fields2 = <<>>
    /\ spc = "idle"

\* the file the loop is at
scannedFile == arg[out + 1]

inLoop == pc = "scan" /\ op = "scanning" /\ out < Len(arg)

\* ReadFile returns an error: the file is skipped
ReadFails ==
    /\ inLoop
    /\ scannedFile.readErr
    /\ out' = out + 1
    /\ UNCHANGED <<poolVars, pc, loaded, todo, linkCount, lastCall, arg, op, schemaVars>>

\* a .java file: ParseJavaFile returns no error and the class goes to the pool
ScanJavaFile ==
    /\ inLoop
    /\ ~scannedFile.readErr
    /\ HasSuffix(scannedFile.Path, <<".","j","a","v","a">>)
    /\ LET cls == ParseJavaFile(scannedFile.Content)
           p == poolAddJavaClass([nodes |-> nodes, ClassMap |-> ClassMap, MethodMap |-> MethodMap,
                                  MethodBodyMap |-> MethodBodyMap, FieldTypeMap |-> FieldTypeMap],
                                 cls)
       IN /\ nodes' = p.nodes
          /\ ClassMap' = p.ClassMap
          /\ MethodMap' = p.MethodMap
          /\ MethodBodyMap' = p.MethodBodyMap
          /\ FieldTypeMap' = p.FieldTypeMap
    /\ out' = out + 1
    /\ UNCHANGED <<SQLMap, pc, loaded, todo, linkCount, lastCall, arg, op, schemaVars>>

\* a .xml file that ParseXMLFile parses: the statements go to the pool
ScanXMLFile ==
    /\ inLoop
    /\ ~scannedFile.readErr
    /\ ~HasSuffix(scannedFile.Path, <<".","j","a","v","a">>)
    /\ HasSuffix(scannedFile.Path, <<".","x","m","l">>)
    /\ ~scannedFile.xmlErr
    /\ LET st == addSQLs([nodes |-> nodes, SQLMap |-> SQLMap], scannedFile.Mapper, 1)
       IN /\ nodes' = st.nodes
          /\ SQLMap' = st.SQLMap
    /\ out' = out + 1
    /\ UNCHANGED <<ClassMap, MethodMap, MethodBodyMap, FieldTypeMap, pc, loaded, todo, linkCount,
                   lastCall, arg, op, schemaVars>>

\* a .xml file for which ParseXMLFile returns an error: nothing is registered
ParseXMLFails ==
    /\ inLoop
    /\ ~scannedFile.readErr
    /\ ~HasSuffix(scannedFile.Path, <<".","j","a","v","a">>)
    /\ HasSuffix(scannedFile.Path, <<".","x","m","l">>)
    /\ scannedFile.xmlErr
    /\ out' = out + 1
    /\ UNCHANGED <<poolVars, pc, loaded, todo, linkCount, lastCall, arg, op, schemaVars>>

\* the loop is over
ScanDone ==
    /\ pc = "scan"
    /\ op = "scanning"
    /\ out = Len(arg)
    /\ op' = "scanned"
    /\ UNCHANGED <<poolVars, pc, loaded, todo, linkCount, lastCall, arg, out, schemaVars>>

ScanNext ==
    \/ ReadFails
    \/ ScanJavaFile
    \/ ScanXMLFile
    \/ ParseXMLFails
    \/ ScanDone

ScanSpec == ScanInit /\ [][ScanNext]_vars

(***************************************************************************)
(* The stream sorter of the exporters (common.SortNodes) on a linked pool  *)
(* in which a utility method calls a mapper                                *)
(***************************************************************************)
\* traverseAndSort(node, main, utils) on the streams st; aliased when the caller passed the
\* utils slice for main as well, as traverseAndSort does for the children of a UTIL Node
RECURSIVE traverseAndSort(_, _, _, _)
RECURSIVE traverseChildren(_, _, _, _, _)
traverseAndSort(ns, node, st, aliased) ==
    IF node = Nil THEN st
    ELSE IF ns[node].Type = "UTIL"
    THEN traverseChildren(ns, ns[node].Children, 1, [st EXCEPT !.utils = Append(@, node)], TRUE)
    ELSE traverseChildren(ns, ns[node].Children, 1,
                          IF aliased THEN [st EXCEPT !.utils = Append(@, node)]
                          ELSE [st EXCEPT !.main = Append(@, node)],
                          aliased)

\* the range loop over the children from children[i] on
traverseChildren(ns, children, i, st, aliased) ==
    IF i > Len(children) THEN st
    ELSE traverseChildren(ns, children, i + 1, traverseAndSort(ns, children[i], st, aliased),
                          aliased)

\* SortNodes(root): [main |-> mainStream, utils |-> utilStream]
SortNodes(ns, root) ==
    traverseChildren(ns, ns[root].Children, 1, [main |-> <<>>, utils |-> <<>>], FALSE)

J_OrderController ==
    [Package |-> s_c, Name |-> <<"O","r","d","e","r","C","o","n","t","r","o","l","l","e","r">>, Annotations |-> <<s_Controller>>,
     Fields |-> <<[Name |-> <<"a","u","d","i","t">>, Type |-> <<"A","u","d","i","t","H","e","l","p","e","r">>],
                  [Name |-> <<"o","r","d","e","r","S","e","r","v","i","c","e">>, Type |-> <<"O","r","d","e","r","S","e","r","v","i","c","e">>]>>,
     Methods |-> <<
        [Name |-> <<"p","l","a","c","e">>, ReturnType |-> s_void, Body |-> <<"a","u","d","i","t",".","s","t","a","m","p","(",")",";"," ","o","r","d","e","r","S","e","r","v","i","c","e",".","s","a","v","e","(",")",";">>],
        [Name |-> <<"s","h","o","w">>, ReturnType |-> s_void, Body |-> <<"o","r","d","e","r","S","e","r","v","i","c","e",".","s","a","v","e","(",")",";"," ","a","u","d","i","t",".","p","l","a","i","n","(",")",";">>]>>]

\* neither an annotation nor a name suffix gives the class a layer: its Nodes are UTIL
J_AuditHelper ==
    [Package |-> s_c, Name |-> <<"A","u","d","i","t","H","e","l","p","e","r">>, Annotations |-> <<>>,
     Fields |-> <<[Name |-> <<"o","r","d","e","r","M","a","p","p","e","r">>, Type |-> <<"O","r","d","e","r","M","a","p","p","e","r">>]>>,
     Methods |-> <<
        [Name |-> <<"s","t","a","m","p">>, ReturnType |-> s_void, Body |-> <<"o","r","d","e","r","M","a","p","p","e","r",".","i","n","s","e","r","t","A","u","d","i","t","(",")",";">>],
        [Name |-> <<"p","l","a","i","n">>, ReturnType |-> s_void, Body |-> <<"i","n","t"," ","n"," ","="," ","0",";">>]>>]

J_OrderService ==
    [Package |-> s_c, Name |-> <<"O","r","d","e","r","S","e","r","v","i","c","e">>, Annotations |-> <<s_Service>>,
     Fields |-> <<>>,
     Methods |-> <<[Name |-> <<"s","a","v","e">>, ReturnType |-> s_void, Body |-> <<"i","n","t"," ","n"," ","="," ","0",";">>]>>]

J_OrderMapper ==
    [Package |-> s_c, Name |-> <<"O","r","d","e","r","M","a","p","p","e","r">>, Annotations |-> <<s_Mapper>>,
     Fields |-> <<>>,
     Methods |-> <<[Name |-> <<"i","n","s","e","r","t","A","u","d","i","t">>, ReturnType |-> s_void, Body |-> <<>>]>>]

OrderClasses == <<J_OrderController, J_AuditHelper, J_OrderService, J_OrderMapper>>

\* the four classes were registered
SortInit ==
        LET p == poolOf([nodes |-> <<>>, ClassMap |-> EmptyMap, MethodMap |-> EmptyMap,
                         MethodBodyMap |-> EmptyMap, FieldTypeMap |-> EmptyMap], OrderClasses, 1)
        IN /\ nodes = p.nodes
           /\ ClassMap = p.ClassMap
           /\ MethodMap = p.MethodMap
           /\ MethodBodyMap = p.MethodBodyMap
           /\ FieldTypeMap = p.FieldTypeMap
           /\ SQLMap = EmptyMap
           /\ pc = "load"
           /\ loaded = SeqRange(OrderClasses)
           /\ todo = {}
           /\ linkCount = 0
           /\ lastCall = <<>>
           /\ arg = <<>>
           /\ out = <<>>
           /\ op = "none"
           /\ stack = <<>>
           /\ visited = {}
           /\ ret = <<>>
           /\ typeArg = <<>>
           /\ fields1 = <<>>
           /\ fields2 = <<>>
           /\ spc = "idle"

\* an exporter calls SortNodes(root) for a Node of the linked pool
SortNodesCall ==
    /\ pc = "linked"
    /\ \E root \in 1..Len(nodes) :
          /\ arg' = root
          /\ out' = SortNodes(nodes, root)
    /\ op' = "SortNodes"
    /\ UNCHANGED <<poolVars, pc, loaded, todo, linkCount, lastCall, schemaVars>>

SortNext ==
    \/ LinkStart
    \/ LinkJavaMethod
    \/ LinkJavaDone
    \/ LinkMapperMethod
    \/ LinkDone
    \/ SortNodesCall

SortSpec == SortInit /\ [][SortNext]_vars

(***************************************************************************)
(* The OpenAPI exporter: buildComplexSchema rebuilds a nested schema from  *)
(* the flattened ParamDef list of a request body or of a response.  A JSON *)
(* object (map[string]interface{}) is an index into a heap of schema       *)
(* objects; index 1 is rootSchema                                          *)
(***************************************************************************)
mapType(javaType) ==
    LET has(lower, part) == Contains(lower, part)
        mapped(lower) ==
            IF has(lower, <<"i","n","t">>) \/ has(lower, <<"l","o","n","g">>) \/ has(lower, <<"d","o","u","b","l","e">>) \/ has(lower, <<"f","l","o","a","t">>)
            THEN "integer"
            ELSE IF has(lower, <<"b","o","o","l","e","a","n">>) THEN "boolean"
            ELSE IF has(lower, <<"l","i","s","t">>) \/ has(lower, <<"s","e","t">>) \/ has(lower, <<"[","]">>) THEN "array"
            ELSE IF has(lower, <<"m","a","p">>) \/ has(lower, <<"d","t","o">>) \/ has(lower, <<"v","o">>)
                    \/ has(lower, <<"e","n","t","i","t","y">>) \/ has(lower, <<"o","b","j","e","c","t">>) THEN "object"
            ELSE "string"
    IN mapped(ToLower(javaType))

\* a schema object: hasProperties and items = 0 stand for an absent key
SchemaObject(type, description, hasProperties, items) ==
    [type |-> type, description |-> description, hasProperties |-> hasProperties,
     properties |-> EmptyMap, items |-> items]

\* the part of the loop body that finds targetProps: the heap after the missing "items" and
\* "properties" keys are made, and the index of the object that owns targetProps
targetOf(heap, parentSchema) ==
    IF heap[parentSchema].type = "array"
    THEN LET withItems ==
                 IF heap[parentSchema].items = 0
                 THEN Append([heap EXCEPT ![parentSchema].items = Len(heap) + 1],
                             SchemaObject("object", <<>>, TRUE, 0))
                 ELSE heap
             itemsSchema == withItems[parentSchema].items
             asObject ==
                 IF withItems[itemsSchema].type # "object"
                 THEN [withItems EXCEPT ![itemsSchema].type = "object",
                                        ![itemsSchema].hasProperties = TRUE,
                                        ![itemsSchema].properties = EmptyMap]
                 ELSE withItems
         IN [heap |-> [asObject EXCEPT ![itemsSchema].hasProperties = TRUE],
             owner |-> itemsSchema]
    ELSE [heap |-> [heap EXCEPT ![parentSchema].hasProperties = TRUE], owner |-> parentSchema]

\* one iteration of the loop of buildComplexSchema; made records, for each field of the list,
\* the schema object created for it (0 for a field the loop skips)
buildField(st, field) ==
    IF field.Depth < 1 THEN [st EXCEPT !.made = Append(@, 0)]
    ELSE LET attach(target, fieldType) ==
                 LET fieldSchema == Len(target.heap) + 1
                     created ==
                         IF fieldType = "array"
                         THEN <<SchemaObject(fieldType, field.Description, FALSE, fieldSchema + 1),
                                SchemaObject("string", <<>>, FALSE, 0)>>
                         ELSE <<SchemaObject(fieldType, field.Description, FALSE, 0)>>
                 IN [heap |-> [target.heap EXCEPT ![target.owner].properties =
                                   Put(@, field.Name, fieldSchema)] \o created,
                     pathMap |-> Put(st.pathMap, field.Depth, fieldSchema),
                     made |-> Append(st.made, fieldSchema)]
         IN attach(targetOf(st.heap, IF field.Depth - 1 \in DOMAIN st.pathMap
                                     THEN st.pathMap[field.Depth - 1] ELSE 1),
                   mapType(field.Type))

RECURSIVE buildFields(_, _, _)
buildFields(fields, i, st) ==
    IF i > Len(fields) THEN st ELSE buildFields(fields, i + 1, buildField(st, fields[i]))

\* buildComplexSchema(fields): the heap whose object 1 is the returned rootSchema
buildComplexSchema(fields) ==
    buildFields(fields, 1,
                [heap |-> <<SchemaObject("object", <<>>, TRUE, 0)>>,
                 pathMap |-> Put(EmptyMap, 0, 1), made |-> <<>>])

\* field lists the Extractor hands to the exporter: lists of the shape resolveSchema returns
\* (the pre-order walk of a field tree, then deduplicateFields), and the lists the return
\* variable trace of the dynamic rescue returns for method bodies
BuildNames == {<<"i","d">>, <<"i","t","e","m","s">>, <<"o","w","n","e","r">>}
BuildTypes == {<<"S","t","r","i","n","g">>, <<"I","t","e","m","D","t","o">>, <<"L","i","s","t","<","I","t","e","m","D","t","o",">">>, <<"O","b","j","e","c","t">>}
MaxFields == 3

RECURSIVE PreOrderLists(_)
PreOrderLists(n) ==
    IF n = 0 THEN {<<>>}
    ELSE LET shorter == PreOrderLists(n - 1)
             depths(l) == IF l = <<>> THEN {1}
                          ELSE 1..(IF isComplexType(l[Len(l)].Type)
                                   THEN l[Len(l)].Depth + 1 ELSE l[Len(l)].Depth)
         IN shorter \cup
            {Append(l, [Name |-> name, Type |-> type, Depth |-> depth, Description |-> <<>>]) :
               <<l, name, type, depth>> \in
                 {x \in {l \in shorter : Len(l) = n - 1} \X BuildNames \X BuildTypes \X (1..n) :
                    x[4] \in depths(x[1])}}

TraceBodies == {<<"i","n","t"," ","n"," ","="," ","0",";"," ","r","e","t","u","r","n"," ","n",";">>, <<"S","t","r","i","n","g"," ","s"," ","="," ","\"","\"",";"," ","r","e","t","u","r","n"," ","s",";">>, <<"I","t","e","m","D","t","o"," ","d"," ","="," ","n","u","l","l",";"," ","r","e","t","u","r","n"," ","d",";">>}

BuildInit ==
    /\ nodes = <<>>
    /\ ClassMap = EmptyMap
    /\ MethodMap = EmptyMap
    /\ MethodBodyMap = EmptyMap
    /\ SQLMap = EmptyMap
    /\ FieldTypeMap = EmptyMap
    /\ pc = "export"
    /\ loaded = {}
    /\ todo = {}
    /\ linkCount = 0
    /\ lastCall = <<>>
    /\ arg \in {deduplicateFields(l) : l \in PreOrderLists(MaxFields)}
               \cup {returnVariableTrace(body) : body \in TraceBodies}
    /\ out = <<>>
    /\ op = "none"
    /\ stack = <<>>
    /\ visited = {}
    /\ ret = <<>>
    /\ typeArg = <<>>
    /\ fields1 = <<>>
    /\ fields2 = <<>>
    /\ spc = "idle"

\* addEndpointToSpec builds the schema of a response (or request body) that has fields
BuildComplexSchema ==
    /\ pc = "export"
    /\ op = "none"
    /\ Len(arg) > 0
    /\ out' = buildComplexSchema(arg)
    /\ op' = "buildComplexSchema"
    /\ UNCHANGED <<poolVars, pc, loaded, todo, linkCount, lastCall, arg, schemaVars>>

BuildNext == BuildComplexSchema

BuildSpec == BuildInit /\ [][BuildNext]_vars

(***************************************************************************)
(* The dynamic rescue as the calls of inferMapSchema it makes: stack holds *)
(* one frame for each activation, innermost last.  The pool has services   *)
(* whose methods return each other's results: two reached through fields   *)
(* of their own class types, two reached through fields of interface types *)
(* whose implementations (Impl) are in the pool, and one that returns its  *)
(* own result                                                              *)
(***************************************************************************)
J_HopController ==
    [Package |-> s_c, Name |-> <<"H","o","p","C","o","n","t","r","o","l","l","e","r">>, Annotations |-> <<s_RestController>>,
     Fields |-> <<[Name |-> <<"a","l","p","h","a">>, Type |-> <<"A","l","p","h","a","S","e","r","v","i","c","e">>],
                  [Name |-> <<"l","e","f","t">>, Type |-> <<"L","e","f","t","S","e","r","v","i","c","e">>],
                  [Name |-> <<"l","o","o","p">>, Type |-> <<"L","o","o","p","S","e","r","v","i","c","e">>]>>,
     Methods |-> <<
        [Name |-> <<"v","i","a","I","m","p","l">>, ReturnType |-> s_Object, Body |-> <<"r","e","t","u","r","n"," ","a","l","p","h","a",".","a","l","p","h","a","D","a","t","a","(",")",";">>],
        [Name |-> <<"v","i","a","P","l","a","i","n">>, ReturnType |-> s_Object, Body |-> <<"r","e","t","u","r","n"," ","l","e","f","t",".","l","e","f","t","D","a","t","a","(",")",";">>],
        [Name |-> <<"v","i","a","S","e","l","f">>, ReturnType |-> s_Object, Body |-> <<"r","e","t","u","r","n"," ","l","o","o","p",".","w","a","l","k","(",")",";">>]>>]

J_AlphaServiceImpl ==
    [Package |-> s_c, Name |-> <<"A","l","p","h","a","S","e","r","v","i","c","e","I","m","p","l">>, Annotations |-> <<s_Service>>,
     Fields |-> <<[Name |-> <<"b","e","t","a">>, Type |-> <<"B","e","t","a","S","e","r","v","i","c","e">>]>>,
     Methods |-> <<[Name |-> <<"a","l","p","h","a","D","a","t","a">>, ReturnType |-> s_Object, Body |-> <<"r","e","t","u","r","n"," ","b","e","t","a",".","b","e","t","a","D","a","t","a","(",")",";">>]>>]

J_BetaServiceImpl ==
    [Package |-> s_c, Name |-> <<"B","e","t","a","S","e","r","v","i","c","e","I","m","p","l">>, Annotations |-> <<s_Service>>,
     Fields |-> <<[Name |-> <<"a","l","p","h","a">>, Type |-> <<"A","l","p","h","a","S","e","r","v","i","c","e">>]>>,
     Methods |-> <<[Name |-> <<"b","e","t","a","D","a","t","a">>, ReturnType |-> s_Object, Body |-> <<"r","e","t","u","r","n"," ","a","l","p","h","a",".","a","l","p","h","a","D","a","t","a","(",")",";">>]>>]

J_LeftService ==
    [Package |-> s_c, Name |-> <<"L","e","f","t","S","e","r","v","i","c","e">>, Annotations |-> <<s_Service>>,
     Fields |-> <<[Name |-> <<"r","i","g","h","t">>, Type |-> <<"R","i","g","h","t","S","e","r","v","i","c","e">>]>>,
     Methods |-> <<[Name |-> <<"l","e","f","t","D","a","t","a">>, ReturnType |-> s_Object, Body |-> <<"r","e","t","u","r","n"," ","r","i","g","h","t",".","r","i","g","h","t","D","a","t","a","(",")",";">>]>>]

J_RightService ==
    [Package |-> s_c, Name |-> <<"R","i","g","h","t","S","e","r","v","i","c","e">>, Annotations |-> <<s_Service>>,
     Fields |-> <<[Name |-> <<"l","e","f","t">>, Type |-> <<"L","e","f","t","S","e","r","v","i","c","e">>]>>,
     Methods |-> <<[Name |-> <<"r","i","g","h","t","D","a","t","a">>, ReturnType |-> s_Object, Body |-> <<"r","e","t","u","r","n"," ","l","e","f","t",".","l","e","f","t","D","a","t","a","(",")",";">>]>>]

J_LoopService ==
    [Package |-> s_c, Name |-> <<"L","o","o","p","S","e","r","v","i","c","e">>, Annotations |-> <<s_Service>>,
     Fields |-> <<[Name |-> <<"l","o","o","p">>, Type |-> <<"L","o","o","p","S","e","r","v","i","c","e">>]>>,
     Methods |-> <<[Name |-> <<"w","a","l","k">>, ReturnType |-> s_Object, Body |-> <<"r","e","t","u","r","n"," ","l","o","o","p",".","w","a","l","k","(",")",";">>]>>]

HopClasses ==
    <<J_HopController, J_AlphaServiceImpl, J_BetaServiceImpl, J_LeftService, J_RightService,
      J_LoopService>>

\* activations of inferMapSchema the goroutine stack has room for
MaxFrames == 4

HopInit ==
    LET p == poolOf([nodes |-> <<>>, ClassMap |-> EmptyMap, MethodMap |-> EmptyMap,
                     MethodBodyMap |-> EmptyMap, FieldTypeMap |-> EmptyMap], HopClasses, 1)
    IN /\ nodes = p.nodes
       /\ ClassMap = p.ClassMap
       /\ MethodMap = p.MethodMap
       /\ MethodBodyMap = p.MethodBodyMap
       /\ FieldTypeMap = p.FieldTypeMap
       /\ SQLMap = EmptyMap
       /\ pc = "load"
       /\ loaded = SeqRange(HopClasses)
       /\ todo = {}
       /\ linkCount = 0
       /\ lastCall = <<>>
       /\ arg = <<>>
       /\ out = <<>>
       /\ op = "none"
       /\ stack = <<>>
       /\ visited = {}
       /\ ret = <<>>
       /\ typeArg = <<>>
       /\ fields1 = <<>>
       /\ fields2 = <<>>
       /\ spc = "idle"

\* Link runs before the emitters and between their runs, never during an extraction
HopLinkStart == stack = <<>> /\ op # "fatal: stack overflow" /\ LinkStart

\* extractResponse calls inferMapSchema(method, ...) for a method of a controller whose
\* return type is dynamic
InferCall ==
    /\ pc = "linked"
    /\ stack = <<>>
    /\ op # "fatal: stack overflow"
    /\ \E c \in Range(ClassMap) : \E i \in 1..Len(nodes[c].Children) :
          LET method == nodes[c].Children[i]
          IN /\ nodes[c].Type = "CONTROLLER"
             /\ nodes[method].Type = "CONTROLLER"
             /\ isDynamicType(nodes[method].ReturnDetail)
             /\ arg' = method
             /\ stack' = <<[node |-> method, stage |-> "enter"]>>
    /\ op' = "inferMapSchema"
    /\ out' = <<>>
    /\ ret' = <<>>
    /\ UNCHANGED <<poolVars, runVars, lastCall, visited, typeArg, fields1, fields2, spc>>

\* the activation on top reaches `return inferMapSchema(child, classMap, fieldTypeMap)`
InferHop ==
    /\ stack # <<>>
    /\ stack[Len(stack)].stage = "enter"
    /\ Len(stack) < MaxFrames
    /\ \E o \in inferOutcomes(nodes, stack[Len(stack)].node) :
          /\ o.hop # Nil
          /\ stack' = Append([stack EXCEPT ![Len(stack)].stage = "called"],
                             [node |-> o.hop, stage |-> "enter"])
    /\ UNCHANGED <<poolVars, runVars, lastCall, visited, ret, typeArg, fields1, fields2, spc,
                   callVars>>

\* the same call when the stack has no room left: the Go runtime ends the process
InferOverflow ==
    /\ stack # <<>>
    /\ stack[Len(stack)].stage = "enter"
    /\ Len(stack) = MaxFrames
    /\ op = "inferMapSchema"
    /\ \E o \in inferOutcomes(nodes, stack[Len(stack)].node) : o.hop # Nil
    /\ op' = "fatal: stack overflow"
    /\ UNCHANGED <<poolVars, runVars, lastCall, schemaVars, arg, out>>

\* the frame on top is popped with the value fields; the call made by extractResponse has
\* returned when it was the last one
popFrame(fields) ==
    /\ stack' = SubSeq(stack, 1, Len(stack) - 1)
    /\ ret' = fields
    /\ IF Len(stack) = 1
       THEN out' = fields /\ op' = "returned"
       ELSE UNCHANGED <<out, op>>
    /\ UNCHANGED <<poolVars, runVars, lastCall, visited, typeArg, fields1, fields2, spc, arg>>

\* the activation on top returns the fields one of its strategies found (or none)
InferReturn ==
    /\ stack # <<>>
    /\ stack[Len(stack)].stage = "enter"
    /\ op = "inferMapSchema"
    /\ \E o \in inferOutcomes(nodes, stack[Len(stack)].node) : o.hop = Nil /\ popFrame(o.fields)

\* the activation on top returns what the activation it called returned
InferReturnHop ==
    /\ stack # <<>>
    /\ stack[Len(stack)].stage = "called"
    /\ popFrame(ret)

HopNext ==
    \/ HopLinkStart
    \/ LinkJavaMethod
    \/ LinkJavaDone
    \/ LinkMapperMethod
    \/ LinkDone
    \/ InferCall
    \/ InferHop
    \/ InferOverflow
    \/ InferReturn
    \/ InferReturnHop

HopSpec == HopInit /\ [][HopNext]_vars

(***************************************************************************)
(* The tree traversals of the emitters (SortNodes with traverseAndSort,    *)
(* FlattenTree with recursiveTraverse) as the calls they make, on a pool   *)
(* whose methods call each other.  stack holds the loop of SortNodes or    *)
(* FlattenTree over the children of the root, and above it one frame for   *)
(* each activation of the recursive function: its Node, the child its loop *)
(* visits next, the stream its main pointer refers to and its indent       *)
(***************************************************************************)
TraverseStart(name) ==
    /\ pc = "linked"
    /\ stack = <<>>
    /\ op # "fatal: stack overflow"
    /\ \E root \in 1..Len(nodes) :
          /\ arg' = root
          /\ stack' = <<[node |-> root, i |-> 1, main |-> "main", indent |-> 0]>>
    /\ out' = [main |-> <<>>, utils |-> <<>>]
    /\ op' = name
    /\ UNCHANGED <<poolVars, runVars, lastCall, visited, ret, typeArg, fields1, fields2, spc>>

\* an emitter calls SortNodes(root) for a Node of the linked pool
SortNodesStart == TraverseStart("SortNodes")

\* an emitter calls FlattenTree(root)
FlattenTreeStart == TraverseStart("FlattenTree")

\* the stream the row of the child goes to, which is also the main stream of its children
streamOf(child, frame) == IF nodes[child].Type = "UTIL" THEN "utils" ELSE frame.main

\* the loop on top of the stack calls the recursive function for its next child, which
\* appends the child to a stream and starts the loop over the child's children
TraverseChild ==
    /\ stack # <<>>
    /\ op \in {"SortNodes", "FlattenTree"}
    /\ Len(stack) <= MaxFrames
    /\ LET frame == stack[Len(stack)]
           child == nodes[frame.node].Children[frame.i]
           row(c) == IF op = "SortNodes" THEN c ELSE [Node |-> c, Indent |-> frame.indent + 1]
       IN /\ frame.i <= Len(nodes[frame.node].Children)
          /\ out' = [out EXCEPT ![streamOf(child, frame)] = Append(@, row(child))]
          /\ stack' = Append([stack EXCEPT ![Len(stack)].i = @ + 1],
                             [node |-> child, i |-> 1, main |-> streamOf(child, frame),
                              indent |-> frame.indent + 1])
    /\ UNCHANGED <<poolVars, runVars, lastCall, visited, ret, typeArg, fields1, fields2, spc,
                   arg, op>>

\* the same call when the stack has no room left: the Go runtime ends the process
TraverseOverflow ==
    /\ stack # <<>>
    /\ op \in {"SortNodes", "FlattenTree"}
    /\ Len(stack) > MaxFrames
    /\ stack[Len(stack)].i <= Len(nodes[stack[Len(stack)].node].Children)
    /\ op' = "fatal: stack overflow"
    /\ UNCHANGED <<poolVars, runVars, lastCall, schemaVars, arg, out>>

\* the loop on top of the stack has visited every child: the activation returns; SortNodes
\* or FlattenTree returns the two streams when it was its own loop
TraverseReturn ==
    /\ stack # <<>>
    /\ op \in {"SortNodes", "FlattenTree"}
    /\ stack[Len(stack)].i > Len(nodes[stack[Len(stack)].node].Children)
    /\ stack' = SubSeq(stack, 1, Len(stack) - 1)
    /\ op' = IF Len(stack) = 1 THEN "returned" ELSE op
    /\ UNCHANGED <<poolVars, runVars, lastCall, visited, ret, typeArg, fields1, fields2, spc,
                   arg, out>>

TraverseNext ==
    \/ HopLinkStart
    \/ LinkJavaMethod
    \/ LinkJavaDone
    \/ LinkMapperMethod
    \/ LinkDone
    \/ SortNodesStart
    \/ FlattenTreeStart
    \/ TraverseChild
    \/ TraverseOverflow
    \/ TraverseReturn

\* the three classes of CycleSpec and a service that calls nothing were registered
TraverseInit ==
    LET p == poolOf([nodes |-> <<>>, ClassMap |-> EmptyMap, MethodMap |-> EmptyMap,
                     MethodBodyMap |-> EmptyMap, FieldTypeMap |-> EmptyMap],
                    <<J_GameController, J_PingService, J_PongService, J_TextService>>, 1)
    IN /\ nodes = p.nodes
       /\ ClassMap = p.ClassMap
       /\ MethodMap = p.MethodMap
       /\ MethodBodyMap = p.MethodBodyMap
       /\ FieldTypeMap = p.FieldTypeMap
       /\ SQLMap = EmptyMap
       /\ pc = "load"
       /\ loaded = CycleClasses \cup {J_TextService}
       /\ todo = {}
       /\ linkCount = 0
       /\ lastCall = <<>>
       /\ arg = <<>>
       /\ out = <<>>
       /\ op = "none"
       /\ stack = <<>>
       /\ visited = {}
       /\ ret = <<>>
       /\ typeArg = <<>>
       /\ fields1 = <<>>
       /\ fields2 = <<>>
       /\ spc = "idle"

TraverseSpec == TraverseInit /\ [][TraverseNext]_vars

(***************************************************************************)
(* Two runs of Link on pools built from the same inputs: the pool is built *)
(* from a list of classes, linked, built again from the same list and      *)
(* linked again.  One list has two classes named Helper in the packages a  *)
(* and b and a caller in a third package; the other has one method that    *)
(* two methods call                                                        *)
(***************************************************************************)
J_HelperA ==
    [Package |-> <<"a">>, Name |-> <<"H","e","l","p","e","r">>, Annotations |-> <<s_Service>>, Fields |-> <<>>,
     Methods |-> <<[Name |-> <<"r","u","n">>, ReturnType |-> s_void, Body |-> <<"i","n","t"," ","n"," ","="," ","1",";">>]>>]

J_HelperB ==
    [Package |-> <<"b">>, Name |-> <<"H","e","l","p","e","r">>, Annotations |-> <<s_Service>>, Fields |-> <<>>,
     Methods |-> <<[Name |-> <<"r","u","n">>, ReturnType |-> s_void, Body |-> <<"i","n","t"," ","n"," ","="," ","2",";">>]>>]

J_JobService ==
    [Package |-> s_c, Name |-> <<"J","o","b","S","e","r","v","i","c","e">>, Annotations |-> <<s_Service>>,
     Fields |-> <<[Name |-> <<"h","e","l","p","e","r">>, Type |-> <<"H","e","l","p","e","r">>]>>,
     Methods |-> <<[Name |-> <<"s","t","a","r","t">>, ReturnType |-> s_void, Body |-> <<"h","e","l","p","e","r",".","r","u","n","(",")",";">>]>>]

J_Worker ==
    [Package |-> s_c, Name |-> <<"W","o","r","k","e","r">>, Annotations |-> <<s_Service>>, Fields |-> <<>>,
     Methods |-> <<[Name |-> <<"w","o","r","k">>, ReturnType |-> s_void, Body |-> <<"i","n","t"," ","n"," ","="," ","3",";">>]>>]

J_ShiftService ==
    [Package |-> s_c, Name |-> <<"S","h","i","f","t","S","e","r","v","i","c","e">>, Annotations |-> <<s_Service>>,
     Fields |-> <<[Name |-> <<"w","o","r","k","e","r">>, Type |-> <<"W","o","r","k","e","r">>]>>,
     Methods |-> <<[Name |-> <<"e","a","r","l","y">>, ReturnType |-> s_void, Body |-> <<"w","o","r","k","e","r",".","w","o","r","k","(",")",";">>],
                   [Name |-> <<"l","a","t","e">>, ReturnType |-> s_void, Body |-> <<"w","o","r","k","e","r",".","w","o","r","k","(",")",";">>]>>]

TwiceInputs == {<<J_HelperA, J_HelperB, J_JobService>>, <<J_Worker, J_ShiftService>>}

\* the pool AddJavaClass builds from the classes, in their order
builtFrom(classes) ==
    poolOf([nodes |-> <<>>, ClassMap |-> EmptyMap, MethodMap |-> EmptyMap,
            MethodBodyMap |-> EmptyMap, FieldTypeMap |-> EmptyMap], classes, 1)

TwiceInit ==
    \E classes \in TwiceInputs :
        /\ nodes = builtFrom(classes).nodes
        /\ ClassMap = builtFrom(classes).ClassMap
        /\ MethodMap = builtFrom(classes).MethodMap
        /\ MethodBodyMap = builtFrom(classes).MethodBodyMap
        /\ FieldTypeMap = builtFrom(classes).FieldTypeMap
        /\ SQLMap = EmptyMap
        /\ pc = "load"
        /\ loaded = SeqRange(classes)
        /\ todo = {}
        /\ linkCount = 0
        /\ lastCall = <<>>
        /\ arg = classes
        /\ out = <<>>
        /\ op = "none"
        /\ stack = <<>>
        /\ visited = {}
        /\ ret = <<>>
        /\ typeArg = <<>>
        /\ fields1 = <<>>
        /\ fields2 = <<>>
        /\ spc = "idle"

\* Link is called on a pool that was just built
TwiceLinkStart == pc = "load" /\ LinkStart

\* the first run is over: its Nodes are kept in out and the pool is built again from the
\* same classes
BuildAgain ==
    /\ pc = "linked"
    /\ op = "none"
    /\ out' = nodes
    /\ op' = "built again"
    /\ nodes' = builtFrom(arg).nodes
    /\ pc' = "load"
    /\ UNCHANGED <<ClassMap, MethodMap, MethodBodyMap, SQLMap, FieldTypeMap, loaded, todo,
                   linkCount, lastCall, arg, schemaVars>>

TwiceNext ==
    \/ TwiceLinkStart
    \/ LinkJavaMethod
    \/ LinkJavaDone
    \/ LinkMapperMethod
    \/ LinkDone
    \/ BuildAgain

TwiceSpec == TwiceInit /\ [][TwiceNext]_vars

(***************************************************************************)
(* Properties of the pool and of the linker                                *)
(***************************************************************************)
ClassNodes == Range(ClassMap)
\* the method Nodes reachable from the class Nodes
MethodNodes == UNION {SeqRange(nodes[c].Children) : c \in ClassNodes}
ChildrenOf(n) == SeqRange(nodes[n].Children)
IsBlank(s) == \A i \in 1..Len(s) : s[i] \in SpaceSet
LastSegment(id) == LET parts == Split(id, ".") IN parts[Len(parts)]

key_login == Join(Join(s_c, s_UserController), s_login)
key_processUser == Join(Join(s_c, s_UserService), s_processUser)

\* C1: after Link, every edge the Linker attached (by the Java call pass or by the Mapper-to-SQL
\* pass) leads to a Node whose Method is a lexically valid identifier, is no reserved keyword
\* and does not end in Exception or Error.
C1_EdgeTargetsAreCleanNames ==
    pc = "linked" =>
        \A n \in MethodNodes : \A b \in ChildrenOf(n) :
            /\ isValidJavaIdentifier(nodes[b].Method)
            /\ ToLower(nodes[b].Method) \notin strictBlocklist
            /\ ~HasSuffix(nodes[b].Method, s_Exception)
            /\ ~HasSuffix(nodes[b].Method, s_Error)

\* C2: after the first Link, the method whose body holds the noise (if, new ModelAndView,
\* System.out.println, return) and one call on the injected field userService has exactly one
\* child, the method processUser of the field's class.
C2_NoisyBodyHasOneChild ==
    (pc = "linked" /\ linkCount = 1 /\ key_login \in DOMAIN MethodMap
        /\ key_processUser \in DOMAIN MethodMap)
    => nodes[MethodMap[key_login]].Children = <<MethodMap[key_processUser]>>

\* C3: after Link, every method Node of a MAPPER class whose name is the id of a SQL statement
\* registered under the class's full name has that SQL Node among its Children.
C3_MapperMethodsHaveSQLChild ==
    pc = "linked" =>
        \A c \in ClassNodes : nodes[c].Type = "MAPPER" =>
            \A m \in ChildrenOf(c) :
                Join(nodes[c].ID, nodes[m].Method) \in DOMAIN SQLMap
                => SQLMap[Join(nodes[c].ID, nodes[m].Method)] \in ChildrenOf(m)

\* C4: the Children list of a method Node holds no two entries with the same id.
C4_NoDuplicateChildIds ==
    \A n \in MethodNodes : \A i, j \in 1..Len(nodes[n].Children) :
        i # j => nodes[nodes[n].Children[i]].ID # nodes[nodes[n].Children[j]].ID

C7_NoDataSuffixedControllerOrService ==
    \A i \in Range(ClassMap) \cup Range(MethodMap) :
        nodes[i].Type \in {"CONTROLLER", "SERVICE"}
        => \A suffix \in modelSuffixes : ~HasSuffix(ToLower(LastSegment(nodes[i].ID)), suffix)

(***************************************************************************)
(* Properties of Node.AddChild                                             *)
(***************************************************************************)
\* C5: a call of AddChild with a nil child or with a child whose Method is empty or
\* whitespace-only changes no Node (neither the parent's Children nor the child's Parent), and
\* every element of every Children list built by AddChild calls has a non-blank Method.
C5_AddChildRejectsNilAndBlank ==
    /\ [][(lastCall'[2] = Nil \/ IsBlank(nodes[lastCall'[2]].Method)) => nodes' = nodes]_vars
    /\ [](\A n \in 1..Len(nodes) : \A child \in ChildrenOf(n) : ~IsBlank(nodes[child].Method))

\* C5 witness: the last call passed a whitespace-only child after other calls built a
\* Children list
C5_Witness ==
    /\ lastCall # <<>>
    /\ lastCall[2] # Nil
    /\ nodes[lastCall[2]].Method # <<>>
    /\ IsBlank(nodes[lastCall[2]].Method)
    /\ \E n \in 1..Len(nodes) : nodes[n].Children # <<>>

(***************************************************************************)
(* Properties of schema resolution                                         *)
(***************************************************************************)
\* C8: every call of resolveSchema returns: both calls made on the pool come to their end,
\* whatever the classes refer to.
C8_ResolveSchemaTerminates == <>(spc = "done")

\* C8 witness: both calls returned on a pool where c.A has a field of type List<A> and c.B a
\* field of type A
C8_Witness ==
    /\ spc = "done"
    /\ Join(s_c, s_B) \in DOMAIN FieldTypeMap
    /\ FieldTypeMap[Join(s_c, s_A)][s_x] = s_ListA
    /\ FieldTypeMap[Join(s_c, s_B)][s_x] = s_A
    /\ fields1 # <<>>

\* C9: two calls of resolveSchema with the same type name on the same pool return equal
\* ParamDef lists: same fields, same order, same depths.
C9_ResolveSchemaIsDeterministic == spc = "done" => fields1 = fields2

\* C10: in the list resolveSchema returns, no element is more than one level deeper than the
\* element before it.
C10_NoDepthSkipping ==
    \A i \in 2..Len(fields1) : fields1[i].Depth <= fields1[i - 1].Depth + 1

(***************************************************************************)
(* Properties of the dynamic return-type rescue                            *)
(***************************************************************************)
\* what the rescue returns when the four strategies are tried in order and the first one
\* with at least one field wins, a hop without fields falling through to the blind scan
RECURSIVE rescueInOrder(_, _, _)
rescueInOrder(ns, n, hops) ==
    LET body == ns[n].Body
        results == localMapInference(body)
        blind == blindMapScan(body)
        resolvedFields == returnVariableTrace(body)
        later == IF Len(blind) > 0 THEN deduplicateFields(blind) ELSE resolvedFields
        hop(child) ==
            IF ns[child].ReturnDetail # <<>> /\ ~isAmbiguousType(ns[child].ReturnDetail)
            THEN {deduplicateFields(resolveSchemaNoClass(ns[child].ReturnDetail, 1))}
            ELSE IF hops = 0 THEN {} ELSE rescueInOrder(ns, child, hops - 1)
    IN IF body = <<>> THEN {<<>>}
       ELSE IF Len(results) > 0 THEN {deduplicateFields(results)}
       ELSE UNION {IF target = <<>> THEN {later}
                   ELSE {IF Len(fields) > 0 THEN fields ELSE later : fields \in hop(target[1])}
                   : target \in serviceHop(ns, n, hopCandidates(body), 1)}

\* C11: the rescue of a method returns the fields of the first of the four strategies (local
\* map synthesis, service hop, blind map scan, return-variable trace) that yields at least
\* one field; a strategy without fields does not keep the later ones from being tried.
C11_FirstYieldingStrategyWins ==
    op = "inferMapSchema" => out \in rescueInOrder(nodes, arg, MaxHops)

\* the Nodes one call inferMapSchema(n, ...) analyses: n and the methods its hops reach
RECURSIVE analysedNodes(_, _, _)
analysedNodes(ns, n, hops) ==
    {n} \cup
    UNION {IF /\ ns[n].Body # <<>>
              /\ localMapInference(ns[n].Body) = <<>>
              /\ target # <<>>
              /\ isAmbiguousType(ns[target[1]].ReturnDetail)
              /\ hops > 0
           THEN analysedNodes(ns, target[1], hops - 1)
           ELSE {}
           : target \in serviceHop(ns, n, hopCandidates(ns[n].Body), 1)}

\* the class that declares the method Node m: its ID without the method name
declaringClass(m) == Slice(nodes[m].ID, 0, LastIndex(nodes[m].ID, "."))

\* C12: on a linked pool the service hop of every method Node analysed looks the receiver
\* up in the field-type mapping of the class that declares the method, also for a method
\* the Linker attached below another method and for one reached by an earlier hop.
C12_HopUsesFieldsOfDeclaringClass ==
    (pc = "linked" /\ op = "inferMapSchema") =>
        \A m \in analysedNodes(nodes, arg, MaxHops) :
            hopFieldTypes(nodes, m) = FieldTypeMap[declaringClass(m)]

(***************************************************************************)
(* Properties of the endpoint list                                         *)
(***************************************************************************)
Emitters == {"html", "word", "openapi"}

\* the <<controller, method>> pairs of the pool: the methods of the controller classes
ControllerMethods ==
    {<<c, m>> \in Range(ClassMap) \X (1..Len(nodes)) :
        nodes[c].Type = "CONTROLLER" /\ m \in SeqRange(nodes[c].Children)}

\* the names of the annotations the method of the Node m carries in its source
declaredAnnotations(m) ==
    UNION {{method.Annotations[i].Name : i \in 1..Len(method.Annotations)} :
           method \in UNION {{class.Methods[j] : j \in {k \in 1..Len(class.Methods) :
                                 Join(Join(class.Package, class.Name), class.Methods[k].Name) = nodes[m].ID}}
                             : class \in loaded}}

emitted(c, m) ==
    \E i \in 1..Len(out) : /\ out[i].ControllerName = LastSegment(nodes[c].ID)
                           /\ out[i].MethodName = nodes[m].Method

\* C13: a controller method is left out of the endpoint list exactly when its response type
\* contains ModelAndView, Model, View, RedirectView or ModelMap, or is exactly String while
\* the method carries no ResponseBody annotation.
C13_OmittedExactlyWhenView ==
    op \in Emitters =>
        \A cm \in ControllerMethods :
            ~emitted(cm[1], cm[2]) <=>
                \E response \in extractResponse(nodes, cm[2]) :
                    \/ \E viewType \in {<<"M","o","d","e","l","A","n","d","V","i","e","w">>, <<"M","o","d","e","l">>, <<"V","i","e","w">>, <<"R","e","d","i","r","e","c","t","V","i","e","w">>, <<"M","o","d","e","l","M","a","p">>} :
                          Contains(response.Type, viewType)
                    \/ /\ response.Type = <<"S","t","r","i","n","g">>
                       /\ <<"R","e","s","p","o","n","s","e","B","o","d","y">> \notin declaredAnnotations(cm[2])

\* the top-level parameters of a parameter text: one more than its commas outside <...>
RECURSIVE topLevelParams(_, _, _)
topLevelParams(s, i, depth) ==
    IF i > Len(s) THEN 1
    ELSE IF s[i] = "<" THEN topLevelParams(s, i + 1, depth + 1)
    ELSE IF s[i] = ">" THEN topLevelParams(s, i + 1, depth - 1)
    ELSE (IF s[i] = "," /\ depth = 0 THEN 1 ELSE 0) + topLevelParams(s, i + 1, depth)

\* C16: the parameter text of a method is split only at the commas outside generic brackets:
\* the parameter list of the parser and the ParamDef list of the Extractor both have exactly
\* one entry for every top-level parameter.
C16_OneEntryPerTopLevelParameter ==
    op \in Emitters =>
        \A i \in 1..Len(out) : \A cm \in ControllerMethods :
            (out[i].ControllerName = LastSegment(nodes[cm[1]].ID) /\ out[i].MethodName = nodes[cm[2]].Method)
            => LET params == nodes[cm[2]].Params
                   n == IF TrimSpace(params) = <<>> THEN 0 ELSE topLevelParams(params, 1, 0)
               IN Len(parseMethodParams(params)) = n /\ Len(out[i].Params) = n

\* C19: the endpoint list every HTTP-documentation renderer works on is sorted by path in
\* non-decreasing order, whatever the order of the class index.
C19_EndpointsSortedByPath ==
    op \in Emitters =>
        \A i \in 1..(Len(out) - 1) : ~StringLess(out[i + 1].Path, out[i].Path)

(***************************************************************************)
(* Properties of the call graph                                            *)
(***************************************************************************)
\* the Nodes reached from the Nodes of S over at most k Children edges, one at least
RECURSIVE descendants(_, _)
descendants(S, k) ==
    LET step == UNION {SeqRange(nodes[n].Children) : n \in S}
    IN IF k = 0 \/ step = {} THEN {} ELSE step \cup descendants(step, k - 1)

\* C14: after Link the directed graph of the Children edges has no cycle: no Node is reached
\* from itself over one or more Children edges.
C14_ChildrenGraphAcyclic ==
    pc = "linked" => \A n \in 1..Len(nodes) : n \notin descendants({n}, Len(nodes))

(***************************************************************************)
(* Properties of the brace matcher                                         *)
(***************************************************************************)
\* the piece that closes the brace opened just before piece a, the nesting depth being depth
\* there; 0 if no piece closes it.  Only the pieces that are a bare brace count.
RECURSIVE closingPiece(_, _, _)
closingPiece(tokens, a, depth) ==
    IF a > Len(tokens) THEN 0
    ELSE IF tokens[a] = <<"{">> THEN closingPiece(tokens, a + 1, depth + 1)
    ELSE IF tokens[a] = <<"}">>
         THEN IF depth = 1 THEN a ELSE closingPiece(tokens, a + 1, depth - 1)
    ELSE closingPiece(tokens, a + 1, depth)

\* C15: for a text and a position just after one of its opening braces, the brace being closed
\* in the text, the matcher returns the position just past the closing brace - braces inside
\* string literals (with \" and \\ escapes), character literals, line comments and block
\* comments do not count - and the method body is exactly the text between the two braces.
C15_MatcherFindsClosingBrace ==
    op = "extractMethods" =>
        LET closing == closingPiece(arg.tokens, arg.from + 1, 1)
        IN closing # 0 =>
              /\ out.bodyEnd = braceStart(arg.tokens, closing)
              /\ out.methodBody = tokensText(arg.tokens, arg.from + 1, closing - 1)

\* the body of a nested block that holds a string with a closing brace and an escaped quote
\* and a comment with an opening brace was cut out
C15_Witness ==
    /\ op = "extractMethods"
    /\ arg.tokens = <<<<"\"","\\","\"","{","\"">>, <<"/","*","{","*","/">>, <<"}">>>>
    /\ out.bodyEnd = braceStart(arg.tokens, 3)
    /\ out.methodBody = <<"\"","\\","\"","{","\"","/","*","{","*","/">>

(***************************************************************************)
(* Properties of the reporting phase                                       *)
(***************************************************************************)
\* the emitter a format name of the flag asks for; pdf asks for none
emitterNamed(name) ==
    CASE name \in {<<"e","x","c","e","l">>, <<"x","l","s","x">>} -> <<"excel">>
      [] name \in {<<"h","t","m","l">>, <<" ","H","T","M","L">>} -> <<"html">>
      [] name = <<"j","s","o","n">> -> <<"openapi">>
      [] OTHER -> <<>>

\* the emitters the names from names[i] on ask for, each once, in the order of its first request
RECURSIVE requestedEmitters(_, _, _)
requestedEmitters(names, i, asked) ==
    IF i > Len(names) THEN <<>>
    ELSE LET emitter == emitterNamed(names[i])
         IN IF emitter = <<>> \/ emitter[1] \in asked
            THEN requestedEmitters(names, i + 1, asked)
            ELSE emitter \o requestedEmitters(names, i + 1, asked \cup {emitter[1]})

\* C17: in the reporting phase every requested emitter is run exactly once, in request order,
\* whether or not an earlier one returned an error, and the run exits non-zero exactly when at
\* least one emitter returned an error.
C17_EachRequestedEmitterRunsOnce ==
    op = "done" =>
        /\ [i \in 1..Len(out.runs) |-> out.runs[i].exporter]
             = requestedEmitters(Split(arg, ","), 1, {})
        /\ out.exit # 0 <=> \E i \in 1..Len(out.runs) : out.runs[i].err

(***************************************************************************)
(* Properties of the file loop                                             *)
(***************************************************************************)
\* the file cannot be read or parsed, or it is a source file in which no class or interface
\* declaration is recognised
contributesNothing(f) ==
    \/ f.readErr
    \/ HasSuffix(f.Path, <<".","x","m","l">>) /\ f.xmlErr
    \/ HasSuffix(f.Path, <<".","j","a","v","a">>) /\ extractClassName(f.Content) = <<>>

\* C18: a file that cannot be read or parsed, or a source file in which no class or interface
\* declaration is recognised, adds no Node to any index of the pool, and the files after it
\* are still processed.
C18_FailedFileAddsNoNode ==
    /\ [][(out' = out + 1 /\ contributesNothing(arg[out + 1])) => UNCHANGED poolVars]_vars
    /\ [](op = "scanned" => out = Len(arg))

(***************************************************************************)
(* Properties of the stream sorter                                         *)
(***************************************************************************)
\* C20: SortNodes puts no UTIL Node in mainStream and only UTIL Nodes in utilStream, so that in
\* the rows of a controller block (mainStream, then utilStream) no Service, Mapper or SQL row
\* comes after a Util row - also when a UTIL method has Service, Mapper or SQL children.
C20_StreamsSeparateUtilNodes ==
    op = "SortNodes" =>
        LET rows == out.main \o out.utils
        IN /\ \A i \in 1..Len(out.main) : nodes[out.main[i]].Type # "UTIL"
           /\ \A i \in 1..Len(out.utils) : nodes[out.utils[i]].Type = "UTIL"
           /\ \A i, j \in 1..Len(rows) :
                 (i < j /\ nodes[rows[i]].Type = "UTIL") => nodes[rows[j]].Type = "UTIL"

(***************************************************************************)
(* Properties of the OpenAPI schema builder                                *)
(***************************************************************************)
\* the index in the list of the most recent item before i labelled with depth d, 0 if none
lastAtDepth(fields, i, d) ==
    LET before == {j \in 1..(i - 1) : fields[j].Depth = d}
    IN IF before = {} THEN 0 ELSE CHOOSE j \in before : \A k \in before : k <= j

\* the schema object whose properties hold the children of the object parent
childrenHolder(built, parent) ==
    IF built.heap[parent].type = "array" THEN built.heap[parent].items ELSE parent

\* item i of the list is a property, under its name, of the schema object parent
attachedTo(fields, built, i, parent) ==
    LET holder == childrenHolder(built, parent)
    IN /\ built.made[i] # 0
       /\ holder # 0
       /\ fields[i].Name \in DOMAIN built.heap[holder].properties
       /\ built.heap[holder].properties[fields[i].Name] = built.made[i]

\* C21: in the schema buildComplexSchema rebuilds from a ParamDef list, every item of depth
\* d >= 1 is a property of the most recent preceding item of depth d-1 (of the root object
\* when d = 1), under "items" when that parent is an array, and every item of the list has
\* a schema object in the rebuilt schema
C21_RebuiltSchemaHoldsEveryItem ==
    op = "buildComplexSchema" =>
        \A i \in 1..Len(arg) :
            /\ out.made[i] # 0
            /\ arg[i].Depth = 1 => attachedTo(arg, out, i, 1)
            /\ (arg[i].Depth > 1 /\ lastAtDepth(arg, i, arg[i].Depth - 1) # 0) =>
                    attachedTo(arg, out, i, out.made[lastAtDepth(arg, i, arg[i].Depth - 1)])

(***************************************************************************)
(* Properties of the Extractor on the linked pool                          *)
(***************************************************************************)
\* C22: once Link has completed, a call of ExtractEndpoints by an emitter leaves every Node
\* (its fields, its Children list and its Parent), the class index, the method index and
\* the field-type mapping as they were, for every emitter and every number of calls.
C22_ExtractionLeavesPoolUnchanged ==
    [][(pc = "linked" /\ pc' = "linked") => UNCHANGED poolVars]_vars

\* C22 witness: Link has run twice and the OpenAPI emitter has extracted several endpoints
\* from the controllers of the pool, whose class Nodes hold their methods as children
C22_Witness ==
    /\ pc = "linked"
    /\ linkCount > 1
    /\ op = "openapi"
    /\ Len(out) > 1
    /\ \E n \in Range(ClassMap) : nodes[n].Type = "CONTROLLER" /\ Len(nodes[n].Children) > 1

(***************************************************************************)
(* Properties of the calls of the dynamic rescue                           *)
(***************************************************************************)
\* C23: every call of inferMapSchema returns, also when service methods return each
\* other's results or a method returns the result of a call of itself: no activation
\* analyses a Node that an activation below it on the stack is analysing (what an activation
\* does is fixed by its Node and the pool, so such a call recurs without end), and the
\* process never ends with a stack overflow.
C23_InferMapSchemaReturns ==
    /\ \A i, j \in 1..Len(stack) : i # j => stack[i].node # stack[j].node
    /\ op # "fatal: stack overflow"

(***************************************************************************)
(* Properties of the tree traversals                                       *)
(***************************************************************************)
\* C24: SortNodes and FlattenTree return for every graph Link produces, also when Children
\* edges form a cycle: no activation of the recursive function visits a Node that an
\* activation below it on the stack is visiting (the walk from a Node is fixed by the graph,
\* so such a call recurs without end), and the process never ends with a stack overflow.
C24_TraversalsReturn ==
    op \in {"SortNodes", "FlattenTree", "fatal: stack overflow"} =>
        /\ \A i, j \in 2..Len(stack) : i # j => stack[i].node # stack[j].node
        /\ op # "fatal: stack overflow"

(***************************************************************************)
(* Properties of the passes of Link                                        *)
(***************************************************************************)
\* every Node keeps its Children in a step and may get more behind them
childrenOnlyAppended ==
    \A n \in DOMAIN nodes :
        /\ n \in DOMAIN nodes'
        /\ Len(nodes[n].Children) <= Len(nodes'[n].Children)
        /\ SubSeq(nodes'[n].Children, 1, Len(nodes[n].Children)) = nodes[n].Children

\* a step of a pass visits one entry of the Methods index that the pass has not visited yet
visitsOneEntry ==
    /\ \E methodKey \in todo : todo' = todo \ {methodKey}
    /\ MethodMap' = MethodMap
    /\ childrenOnlyAppended

\* C25: Link terminates on every finite pool, whatever the methods call: a pass starts with
\* every entry of the Methods index to visit, each of its steps visits one entry not visited
\* yet and only appends to Children lists, no step is stuck on an entry, and the pass ends
\* when no entry is left.  A pass over n entries takes n steps.
C25_LinkPassesVisitEachEntryOnce ==
    /\ [][/\ (pc # "linkJava" /\ pc' = "linkJava") => todo' = DOMAIN MethodMap
          /\ (pc = "linkJava" /\ pc' = "linkJava") => visitsOneEntry
          /\ (pc = "linkJava" /\ pc' # "linkJava") =>
                (todo = {} /\ pc' = "linkXML" /\ todo' = DOMAIN MethodMap)
          /\ (pc = "linkXML" /\ pc' = "linkXML") => visitsOneEntry
          /\ (pc = "linkXML" /\ pc' # "linkXML") => (todo = {} /\ pc' = "linked")]_vars
    /\ [](pc = "linkJava" => \A methodKey \in todo : linkJavaMethod(nodes, methodKey) # {})

\* C25 witness: Link has run twice on the pool whose methods call each other and themselves
C25_Witness ==
    /\ pc = "linked"
    /\ linkCount = 2
    /\ \E n \in 1..Len(nodes) : n \in SeqRange(nodes[n].Children)
    /\ \E n, m \in 1..Len(nodes) :
          n # m /\ m \in SeqRange(nodes[n].Children) /\ n \in SeqRange(nodes[m].Children)

(***************************************************************************)
(* Properties of the list resolveSchema returns                            *)
(***************************************************************************)
\* C26: the list resolveSchema returns for a type is a pre-order flattening of the field
\* tree of the type: every declared field at its depth, every field of a complex type
\* followed at once by the fields of that type one level deeper, a collection unwrapped
\* without a level of its own, also when fields at different depths have the same name.
C26_ResolveSchemaIsPreOrderFlattening ==
    spc \in {"between", "done"} => fields1 \in flattenings(typeArg, 1, {})

\* the type whose fields a call of resolveSchemaRecursive for typeName lists: collections
\* are unwrapped, generics and brackets removed
RECURSIVE elementType(_)
elementType(typeName) ==
    IF isCollectionType(typeName) /\ getInnerType(typeName) # <<>>
    THEN elementType(getInnerType(typeName))
    ELSE cleanTypeName(typeName)

\* the elements of fields nested directly in the element at i (all elements of depth 1 for
\* i = 0)
nestedIn(fields, i) ==
    LET depth == IF i = 0 THEN 0 ELSE fields[i].Depth
    IN {j \in (i + 1)..Len(fields) :
           /\ fields[j].Depth = depth + 1
           /\ \A k \in (i + 1)..j : fields[k].Depth > depth}

\* the types on the resolution path when the type of the element at i is resolved: the type
\* resolveSchema was called for and the types of the elements the one at i is nested in
pathTo(fields, i, typeName) ==
    {elementType(typeName)}
        \cup {elementType(fields[lastAtDepth(fields, i, d)].Type) : d \in 1..(fields[i].Depth - 1)}

\* the elements J of fields are what one call for typeName at the given depth emits itself:
\* nothing on a cut, else one element for each declared field of the type
emittedBy(fields, J, typeName, depth, path) ==
    LET cleanType == elementType(typeName)
    IN IF depth > MaxDepth \/ cleanType \in path THEN J = {}
       ELSE IF isDynamicType(cleanType)
       THEN \E j \in J : J = {j} /\ fields[j] = DynamicParamDef(depth)
       ELSE IF isSystemType(cleanType) \/ matchedKeys(cleanType) = {} THEN J = {}
       ELSE \E matchedKey \in matchedKeys(cleanType) :
            \E fieldTypes \in fieldTypesOf(matchedKey, cleanType) :
               IF fieldTypes.isNil THEN J = {}
               ELSE /\ {fields[j].Name : j \in J} = DOMAIN fieldTypes.map
                    /\ Cardinality(J) = Cardinality(DOMAIN fieldTypes.map)
                    /\ \A j \in J : fields[j].Type = fieldTypes.map[fields[j].Name]

\* fields is what the recursion for typeName returns when it is cut at the offending
\* branches only; the row of a dynamic type is no field and has nothing nested
cutAtBranchOnly(fields, typeName) ==
    /\ \A i \in 1..Len(fields) :
          /\ fields[i].Depth \in 1..MaxDepth
          /\ fields[i].Depth <= (IF i = 1 THEN 0 ELSE fields[i - 1].Depth) + 1
          /\ IF isComplexType(fields[i].Type) /\ fields[i] # DynamicParamDef(fields[i].Depth)
             THEN emittedBy(fields, nestedIn(fields, i), fields[i].Type, fields[i].Depth + 1,
                            pathTo(fields, i, typeName))
             ELSE nestedIn(fields, i) = {}
    /\ emittedBy(fields, nestedIn(fields, 0), typeName, 1, {})

\* C27: the recursion is cut at the offending branch only.  No ParamDef of a list schema
\* resolution returns, or of the nested fields the rescue asks for from depth 2, is deeper
\* than 5; a field whose type is on the resolution path, or whose nested fields would be
\* deeper than 5, is in the list without nested fields; every other field of every class
\* reached is in the list with its nested fields.
C27_RecursionCutAtBranchOnly ==
    /\ (spc \in {"first", "second"} /\ stack = <<>>) => cutAtBranchOnly(ret, typeArg)
    /\ \A i \in 1..Len(stack) : \A k \in 1..Len(stack[i].results) :
          stack[i].results[k].Depth <= MaxDepth
    /\ \A k \in 1..Len(fields1) : fields1[k].Depth <= MaxDepth
    /\ \A k \in 1..Len(fields2) : fields2[k].Depth <= MaxDepth
    /\ \A childFields \in flattenings(typeArg, 2, {}) :
          \A k \in 1..Len(childFields) : childFields[k].Depth \in 2..MaxDepth

\* C27 witness: the recursion returned a list where the field x of c.A, of type List<A>, is
\* cut on the cycle and its sibling y is resolved to the dynamic row
C27_Witness ==
    /\ spc = "first" /\ stack = <<>>
    /\ \E i, j \in 1..Len(ret) :
          /\ ret[i].Name = s_x /\ ret[i].Type = s_ListA /\ ret[i].Depth = 1
          /\ nestedIn(ret, i) = {}
          /\ ret[j].Name = s_y /\ ret[j].Depth = 1
          /\ nestedIn(ret, j) # {}

\* C27 witness of the depth cap is the chain: the field at depth 5 has no nested fields
C27_DepthCapReached ==
    /\ spc = "first" /\ stack = <<>> /\ Len(ret) = MaxDepth
    /\ ret[MaxDepth].Depth = MaxDepth /\ isComplexType(ret[MaxDepth].Type)

(***************************************************************************)
(* Properties of the method lookup and of the indexes                      *)
(***************************************************************************)
\* the method names of the call sites in the body of the method Node n
calledNames(n) == {call.MethodName : call \in SeqRange(FindMethodCalls(nodes[n].Body))}

\* C28: the lookup of a method name in a class returns only method Nodes of that class with
\* that name (none when the class has no method of the name), for every class of the pool
\* and every name called in a method body; after Link, every method of the Methods index
\* attached to a method Node has the name of a call site of that method's body.
C28_LookupReturnsOnlyNamedMethods ==
    /\ \A fullClassName \in DOMAIN ClassMap : \A n \in MethodNodes :
          \A methodName \in calledNames(n) :
             \A results \in FindMethodByName(fullClassName, methodName) :
                \A i \in 1..Len(results) :
                   /\ nodes[results[i]].Method = methodName
                   /\ nodes[results[i]].ID = Join(fullClassName, methodName)
    /\ pc = "linked" =>
          \A n \in MethodNodes : \A b \in ChildrenOf(n) \cap Range(MethodMap) :
             nodes[b].Method \in calledNames(n)

\* C29: every method Node among the Children of a class Node is the Node the Methods index
\* holds under the Node's id, overloads included, so that the loop of the Linker over the
\* index reaches every method an emitter finds under a class.
C29_ClassChildrenAreIndexed ==
    \A c \in ClassNodes : \A m \in ChildrenOf(c) :
        /\ nodes[m].ID \in DOMAIN MethodMap
        /\ MethodMap[nodes[m].ID] = m

(***************************************************************************)
(* Properties of two runs of Link                                          *)
(***************************************************************************)
\* C30: two runs of Link on pools built from the same classes leave every Node with the same
\* Children list and the same Parent, whatever the order in which the range loops visit the
\* indexes, also when two classes of different packages have one simple name and when one
\* method is called from several methods.
C30_LinkIsDeterministic ==
    (pc = "linked" /\ op = "built again") =>
        \A n \in 1..Len(nodes) :
            /\ nodes[n].Children = out[n].Children
            /\ nodes[n].Parent = out[n].Parent
====
